---- MODULE Spec2Model ----
(***************************************************************************)
(* Verification model of the DNS load balancer backend                     *)
(* (src/load_balancing/dnsdist-backend.cc).                                *)
(*                                                                         *)
(* Part 1: the UDP id multiplexer of DownstreamState: saveState,           *)
(* restoreState, getState and handleUDPTimeouts, in sequential mode (a     *)
(* table of slots, each with a try-acquire guard) and in randomized mode   *)
(* (a map under one lock).  Caller threads and the responder thread run    *)
(* in parallel; every action is one atomic step of one thread.             *)
(*                                                                         *)
(* Part 2: the connection management of DownstreamState: reconnect, stop,  *)
(* waitUntilConnected and start, run by threads that share connectLock,    *)
(* the atomics connected and d_stopped and the sockets vector.             *)
(*                                                                         *)
(* Part 3: the hash vector of DownstreamState: hash, setId and setWeight,  *)
(* run by threads that share hashes under its write lock.                  *)
(*                                                                         *)
(* Part 4: ServerPool: addServer, removeServer and updateConsistency.      *)
(***************************************************************************)
EXTENDS Integers, Sequences, FiniteSets, TLC

\* ------------------------------------------------------------------ bounds
\* d_maxUDPOutstanding: the number of slots of the sequential id table.
NumSlots == 2
\* d_config.udpTimeout: scans a slot survives before it counts as expired.
UdpTimeout == 1
\* Number of query contexts the callers hand in (saveState + restoreState).
MaxCtx == 3
\* Number of times a getState that reads past the end of the table finds a
\* byte pattern there that makes it decrement outstanding.
MaxOob == 1
\* d_config.d_numberOfSockets: the number of UDP sockets of the backend.
NumSockets == 2
\* Largest weight handed to setWeight.
MaxWeight == 3
\* Number of backend ids (uuids) handed to setId.
MaxId == 2
\* Number of backends that can be added to the pool.
NumBackends == 3
\* Largest number of entries of the pool's server list.
MaxPool == 3
\* Largest d_config.order of a backend.
MaxOrder == 3

\* Ids 0 .. RandSpan-1 (and the two largest ids) can be in the id map at the
\* start of the randomized-mode specification.
RandSpan == 5

\* Largest value of socketsOffset at which pickSocketForSending is still called.
MaxPickOffset == 7

\* Largest number of incCurrentConnectionsCount calls.
MaxConns == 4
\* Largest number of setPolicy calls after the constructor's.
MaxPolicyCalls == 3
\* Number of backends of the balancer front end (backends_.size()).
NumLbBackends == 3
\* Largest query count kept per backend.
MaxLbQueries == 1
\* Largest number of backends newServer creates.
MaxNewServers == 2
\* Number of pools the health checker watches.
NumHcPools == 2
\* Largest consecutive_failures followed.
MaxFailures == 5
\* Largest number of side-effect declarations followed between two resets.
MaxLuaCalls == 4

\* ---------------------------------------------------------------- constants
\* std::numeric_limits<uint16_t>::max()
UInt16Max == 65535
\* remainingAttempts in the randomized saveState
MaxAttempts == 5
\* healthCheckLoop: unhealthy only after 3 consecutive failures
FailureThreshold == 3

\* c1 runs in every specification of the id multiplexer, c2 only where a second
\* caller is needed (SpecLive)
Callers == {"c1", "c2"}
Slots == 0 .. (NumSlots - 1)
Ctxs == 1 .. MaxCtx
\* std::nullopt / a moved-from InternalQueryState
NoCtx == 0
\* what a read past the end of the table yields
Garbage == MaxCtx + 1
\* ids a response can carry: in range, one past the end, beyond
GetIds == 0 .. (NumSlots + 1)

VARIABLES
  randomizeIDs,   \* d_randomizeIDsToBackend (immutable configuration)
  idStates,       \* sequential mode: slot -> IDState
  idStatesMap,    \* randomized mode: id -> IDState (d_idStatesMap)
  outstanding,    \* DownstreamState::outstanding
  reuseds,        \* DownstreamState::reuseds
  idOffset,       \* DownstreamState::idOffset
  socketsOffset,  \* DownstreamState::socketsOffset
  pc,             \* caller -> position in its current call
  loc,            \* caller -> locals of the current call (id, ctx)
  ret,            \* history: what the step just taken returned or timed out
  wpc,            \* responder thread: position in handleUDPTimeouts
  widx,           \* responder thread: slot the scan is at
  status,         \* history: ctx -> what became of it
  origin,         \* history: ctx -> the call that handed it in
  oob,            \* history: decrements of outstanding by reads past the table's end
  pure,           \* history: only saveState has been called so far
  scans,          \* history: slot -> handleUDPTimeouts calls since its allocation
  getChain,       \* history: a getState obtained a context, and the same id is asked again
  remoteIsAny,    \* IsAnyAddress(d_config.remote) (configuration)
  connected,      \* DownstreamState::connected (atomic)
  d_stopped,      \* DownstreamState::d_stopped (atomic)
  sockets,        \* DownstreamState::sockets: index -> state of the fd
  connectLock,    \* DownstreamState::connectLock: "free" or the owning thread
  threadStarted,  \* DownstreamState::threadStarted (atomic_flag)
  cpc,            \* thread -> position in reconnect / stop / waitUntilConnected / start
  cloc,           \* thread -> locals of the running call, and what it saw when called
  cret,           \* history: what the call that just returned returned, and why
  stopReturned,   \* history: a stop() call has returned
  openFds,        \* history: sockets opened and not yet closed (kernel side)
  d_weight,       \* DownstreamState::d_config.d_weight
  d_id,           \* DownstreamState::d_config.id
  hashes,         \* DownstreamState::hashes (the vector under the lock)
  hashesLock,     \* the write lock of hashes: "free" or the owning thread
  hashesComputed, \* DownstreamState::hashesComputed
  hpc,            \* thread -> position in hash / setId / setWeight
  hloc,           \* thread -> locals of the running call, and what it saw when called
  hret,           \* history: the call that just returned
  cfg,            \* backend -> d_config (order, useECS, disableZeroScope, tcpOnly)
  d_servers,      \* ServerPool::d_servers: list of (ordinal, backend)
  d_useECS,       \* ServerPool::d_useECS
  d_zeroScope,    \* ServerPool::d_zeroScope
  d_tcpOnly,      \* ServerPool::d_tcpOnly
  d_isConsistent, \* ServerPool::d_isConsistent
  pret,           \* history: the pool operation that just ran
  numberOfSockets,       \* sockets.size() as pickSocketForSending sees it
  d_randomizeUDPSockets, \* d_randomizeUDPSocketsToBackend (immutable configuration)
  picks,                 \* history: indices the latest consecutive picks returned
  pickRet,               \* history: the pickSocketForSending call that just returned
  tcpCurrentConnections,        \* DownstreamState::tcpCurrentConnections (atomic)
  tcpMaxConcurrentConnections,  \* DownstreamState::tcpMaxConcurrentConnections (atomic)
  ipc,                   \* thread -> position in incCurrentConnectionsCount
  icur,                  \* thread -> its local currentConnectionsCount
  current_policy_,       \* DnsdistLoadBalancer::current_policy_ (the function bound)
  current_policy_name_,  \* DnsdistLoadBalancer::current_policy_name_
  requests,              \* history: the names passed to setPolicy, in order
  backends_,             \* DnsdistLoadBalancer::backends_, each with its backend_ip_map_ entry
  lbHealth,              \* address -> what HealthChecker reports for it
  backend_query_count_,  \* DnsdistLoadBalancer::backend_query_count_
  served,                \* history: the getServerForQuery call that just returned
  nsObjects,             \* DownstreamState objects made by newServer: number -> d_config and state
  nsPools,               \* pool name -> the backends addServerToPool put there
  d_backends,            \* RuntimeConfiguration::d_backends (the backend list)
  nsRet,                 \* history: the newServer call that just returned
  hashReaders,           \* the threads that hold the shared lock of hashes
  rpc,                   \* reader -> position in its read of hashes
  rseen,                 \* reader -> the vector it found under the shared lock
  pool_health_,          \* HealthChecker::pool_health_: pool -> is_healthy, consecutive_failures
  hcNext,                \* the pool the loop of the running check cycle is at
  hadSuccess,            \* history: pool -> one of its checks has succeeded
  hcRet,                 \* history: the check that was just recorded
  s_noLuaSideEffect,     \* dnsdist-lua.cc: static boost::tribool s_noLuaSideEffect
  luaReset,              \* history: resetLuaSideEffect has been called
  luaCalls,              \* history: the declarations made since the last reset
  luaRet                 \* history: what the latest getLuaNoSideEffect returned

idvars == <<randomizeIDs, idStates, idStatesMap, outstanding, reuseds, idOffset,
            socketsOffset, pc, loc, ret, wpc, widx, status, origin, oob, pure, scans,
            getChain>>

connvars == <<remoteIsAny, connected, d_stopped, sockets, connectLock, threadStarted,
              cpc, cloc, cret, stopReturned, openFds>>

hashvars == <<d_weight, d_id, hashes, hashesLock, hashesComputed, hpc, hloc, hret>>

poolvars == <<cfg, d_servers, d_useECS, d_zeroScope, d_tcpOnly, d_isConsistent, pret>>

\* what the operations on the id table, on the connection, on the hash vector
\* and on the pool leave alone
pickvars == <<numberOfSockets, d_randomizeUDPSockets, picks, pickRet>>

tcpvars == <<tcpCurrentConnections, tcpMaxConcurrentConnections, ipc, icur>>

policyvars == <<current_policy_, current_policy_name_, requests>>

lbvars == <<backends_, lbHealth, backend_query_count_, served>>

nsvars == <<nsObjects, nsPools, d_backends, nsRet>>

readvars == <<hashReaders, rpc, rseen>>

\* the parts of the balancer front end and of the configuration calls, and
\* the readers of the hash vector
hcvars == <<pool_health_, hcNext, hadSuccess, hcRet>>

luavars == <<s_noLuaSideEffect, luaReset, luaCalls, luaRet>>

extvars == <<lbvars, nsvars, readvars, hcvars, luavars>>

\* the parts added after the first four
miscvars == <<pickvars, tcpvars, policyvars, extvars>>

nonIdVars == <<connvars, hashvars, poolvars, miscvars>>
nonConnVars == <<idvars, hashvars, poolvars, miscvars>>
nonHashVars == <<idvars, connvars, poolvars, miscvars>>
nonPoolVars == <<idvars, connvars, hashvars, miscvars>>

vars == <<idvars, connvars, hashvars, poolvars, miscvars>>

\* ----------------------------------------------------------------- helpers
FreshIDState == [inUse |-> FALSE, locked |-> FALSE, age |-> 0, internal |-> NoCtx]

EmptyMap == [x \in {} |-> FreshIDState]

MapPut(m, k, v) == [x \in (DOMAIN m) \cup {k} |-> IF x = k THEN v ELSE m[x]]

MapErase(m, k) == [x \in (DOMAIN m) \ {k} |-> m[x]]

\* the contexts not handed in yet
Fresh == {c \in Ctxs : origin[c] = "none"}

NextCtx == CHOOSE c \in Fresh : \A d \in Fresh : c <= d

\* static bool isIDSExpired(const IDState& ids, uint8_t udpTimeout)
isIDSExpired(ids) == ids.age > UdpTimeout

\* IDState::acquire(): try-lock of the slot's guard
CanAcquire(ids) == ~ids.locked

\* what a context that leaves its slot becomes: seen once, or seen twice
Observe(c, how) ==
  IF c \in Ctxs
    THEN [status EXCEPT ![c] = IF status[c] = "stored" THEN how ELSE "dup"]
    ELSE status

\* ------------------------------------------------- operations on one slot
\* the guard's constructor and destructor
Lock(ids) == [ids EXCEPT !.locked = TRUE]

Unlock(ids) == [ids EXCEPT !.locked = FALSE]

\* mutant: saveState takes the slot and does not store the context
saveStateSlot_dropsContext(ids, c) == [ids EXCEPT !.age = 0, !.inUse = TRUE]

\* saveState under the guard: ids.internal = state; age.store(0); inUse = true
saveStateSlot(ids, c) == [ids EXCEPT !.internal = c, !.age = 0, !.inUse = TRUE]

\* mutant: restoreState marks the slot in use and does not store the context
restoreStateSlot_flagOnly(ids, c) == [ids EXCEPT !.inUse = TRUE]

\* restoreState under the guard: ids.internal = state; ids.inUse = true
restoreStateSlot(ids, c) == [ids EXCEPT !.internal = c, !.inUse = TRUE]

\* mutant: getState hands the context out and leaves the slot as it was
getStateSlot_leavesSlot(ids) == ids

\* getState under the guard: result = std::move(ids.internal); ids.inUse = false
getStateSlot(ids) ==
  [ids EXCEPT !.internal = IF ids.inUse THEN NoCtx ELSE ids.internal, !.inUse = FALSE]

\* handleUDPTimeout: ids.age = 0; ids.inUse = false
handleUDPTimeoutSlot(ids) == [ids EXCEPT !.age = 0, !.inUse = FALSE]

\* getState's range check: if (id > idStates.size()) return result
getStateOutOfRange(id) == id > NumSlots

\* selectedID = (idOffset++) % idStates.size(); only the residue is ever read
selectedID == idOffset % NumSlots

\* mutant: the offset is read but not advanced
idOffsetNext_stuck == idOffset

idOffsetNext == (idOffset + 1) % NumSlots

\* mutant: the first candidate is taken, present or not
RandSelect_firstCandidate(map, off, remaining) ==
  [id |-> off % UInt16Max, inserted |-> (off % UInt16Max) \notin DOMAIN map, off |-> off + 1]

\* the randomized saveState loop: up to MaxAttempts candidates, the first absent
\* one wins, the last one is taken even when present
RECURSIVE RandSelect(_, _, _)
RandSelect(map, off, remaining) ==
  LET sel == off % UInt16Max IN
  IF sel \notin DOMAIN map
    THEN [id |-> sel, inserted |-> TRUE, off |-> off + 1]
    ELSE IF remaining - 1 > 0
      THEN RandSelect(map, off + 1, remaining - 1)
      ELSE [id |-> sel, inserted |-> FALSE, off |-> off + 1]

Idle(t) == pc[t] = "idle"

NoLoc == [id |-> 0, ctx |-> NoCtx]

NoRet == [op |-> "none", id |-> 0, ctx |-> NoCtx, n |-> 0]

\* the call of thread t returns
Return(t, op, id, c) ==
  /\ pc' = [pc EXCEPT ![t] = "idle"]
  /\ loc' = [loc EXCEPT ![t] = NoLoc]
  /\ ret' = [op |-> op, id |-> id, ctx |-> c, n |-> 0]

\* the call of thread t goes on at position p, with locals l
Goto(t, p, l) ==
  /\ pc' = [pc EXCEPT ![t] = p]
  /\ loc' = [loc EXCEPT ![t] = l]
  /\ ret' = NoRet

\* ------------------------------------------------------------- saveState
SaveState_begin(t) ==
  /\ Idle(t)
  /\ UNCHANGED nonIdVars
  /\ getChain' = "none"
  /\ Fresh # {}
  /\ LET c == NextCtx IN
     /\ origin' = [origin EXCEPT ![c] = "save"]
     /\ IF randomizeIDs
          THEN LET r == RandSelect(idStatesMap, socketsOffset, MaxAttempts)
                   old == IF r.inserted THEN FreshIDState ELSE idStatesMap[r.id]
               IN /\ socketsOffset' = r.off
                  /\ idStatesMap' = MapPut(idStatesMap, r.id,
                                           [old EXCEPT !.internal = c, !.age = 0])
                  /\ outstanding' = IF r.inserted THEN outstanding + 1 ELSE outstanding
                  /\ reuseds' = IF r.inserted THEN reuseds ELSE reuseds + 1
                  /\ status' = [Observe(old.internal, "lost") EXCEPT ![c] = "stored"]
                  /\ Return(t, "save", r.id, c)
                  /\ UNCHANGED idOffset
          ELSE /\ Goto(t, "save_acq", [id |-> selectedID, ctx |-> c])
               /\ idOffset' = idOffsetNext
               /\ status' = [status EXCEPT ![c] = "pending"]
               /\ UNCHANGED <<socketsOffset, idStatesMap, outstanding, reuseds>>
  /\ UNCHANGED <<randomizeIDs, idStates, wpc, widx, oob, pure, scans>>

\* auto guard = ids.acquire(); if (!guard) continue;
SaveState_acquire(t) ==
  /\ pc[t] = "save_acq"
  /\ UNCHANGED nonIdVars
  /\ getChain' = "none"
  /\ LET i == loc[t].id IN
     IF CanAcquire(idStates[i])
       THEN /\ idStates' = [idStates EXCEPT ![i] = Lock(@)]
            /\ Goto(t, "save_body", loc[t])
       ELSE /\ Goto(t, "save_pick", loc[t])
            /\ UNCHANGED idStates
  /\ UNCHANGED <<randomizeIDs, idStatesMap, outstanding, reuseds, idOffset, socketsOffset,
                 wpc, widx, status, origin, oob, pure, scans>>

\* the next turn of the do-while loop
SaveState_retry(t) ==
  /\ pc[t] = "save_pick"
  /\ UNCHANGED nonIdVars
  /\ getChain' = "none"
  /\ Goto(t, "save_acq", [loc[t] EXCEPT !.id = selectedID])
  /\ idOffset' = idOffsetNext
  /\ UNCHANGED <<randomizeIDs, idStates, idStatesMap, outstanding, reuseds, socketsOffset,
                 wpc, widx, status, origin, oob, pure, scans>>

SaveState_body(t) ==
  /\ pc[t] = "save_body"
  /\ UNCHANGED nonIdVars
  /\ getChain' = "none"
  /\ LET i == loc[t].id
         c == loc[t].ctx
         ids == idStates[i]
     IN /\ outstanding' = IF ids.inUse THEN outstanding ELSE outstanding + 1
        /\ reuseds' = IF ids.inUse THEN reuseds + 1 ELSE reuseds
        /\ status' = [(IF ids.inUse THEN Observe(ids.internal, "lost") ELSE status)
                        EXCEPT ![c] = "stored"]
        /\ idStates' = [idStates EXCEPT ![i] = Unlock(saveStateSlot(ids, c))]
        /\ scans' = [scans EXCEPT ![i] = 0]
        /\ Return(t, "save", i, c)
  /\ UNCHANGED <<randomizeIDs, idStatesMap, idOffset, socketsOffset, wpc, widx,
                 origin, oob, pure>>

\* ----------------------------------------------------------- restoreState
\* the caller puts a context back under an id it was handed before
RestoreState_begin(t, id) ==
  /\ Idle(t)
  /\ UNCHANGED nonIdVars
  /\ getChain' = "none"
  /\ Fresh # {}
  /\ pure' = FALSE
  /\ LET c == NextCtx IN
     /\ origin' = [origin EXCEPT ![c] = "restore"]
     /\ IF randomizeIDs
          THEN /\ IF id \in DOMAIN idStatesMap
                    THEN /\ reuseds' = reuseds + 1
                         /\ status' = [status EXCEPT ![c] = "lost"]
                         /\ UNCHANGED <<idStatesMap, outstanding>>
                    ELSE /\ idStatesMap' = MapPut(idStatesMap, id,
                                                  [FreshIDState EXCEPT !.internal = c])
                         /\ outstanding' = outstanding + 1
                         /\ status' = [status EXCEPT ![c] = "stored"]
                         /\ UNCHANGED reuseds
               /\ Return(t, "restore", id, c)
               /\ UNCHANGED idStates
          ELSE IF CanAcquire(idStates[id])
            THEN /\ idStates' = [idStates EXCEPT ![id] = Lock(@)]
                 /\ Goto(t, "restore_body", [id |-> id, ctx |-> c])
                 /\ status' = [status EXCEPT ![c] = "pending"]
                 /\ UNCHANGED <<idStatesMap, outstanding, reuseds>>
            ELSE /\ reuseds' = reuseds + 1
                 /\ status' = [status EXCEPT ![c] = "lost"]
                 /\ Return(t, "restore", id, c)
                 /\ UNCHANGED <<idStates, idStatesMap, outstanding>>
  /\ UNCHANGED <<randomizeIDs, idOffset, socketsOffset, wpc, widx, oob, scans>>

RestoreState_body(t) ==
  /\ pc[t] = "restore_body"
  /\ UNCHANGED nonIdVars
  /\ getChain' = "none"
  /\ LET i == loc[t].id
         c == loc[t].ctx
         ids == idStates[i]
     IN /\ IF ids.inUse
             THEN /\ reuseds' = reuseds + 1
                  /\ status' = [status EXCEPT ![c] = "lost"]
                  /\ idStates' = [idStates EXCEPT ![i] = Unlock(ids)]
                  /\ UNCHANGED <<outstanding, scans>>
             ELSE /\ outstanding' = outstanding + 1
                  /\ status' = [status EXCEPT ![c] = "stored"]
                  /\ idStates' = [idStates EXCEPT ![i] = Unlock(restoreStateSlot(ids, c))]
                  /\ scans' = [scans EXCEPT ![i] = 0]
                  /\ UNCHANGED reuseds
        /\ Return(t, "restore", i, c)
  /\ UNCHANGED <<randomizeIDs, idStatesMap, idOffset, socketsOffset, wpc, widx,
                 origin, oob, pure>>

\* --------------------------------------------------------------- getState
\* idStates[id] with id == idStates.size() is a read past the end of the vector:
\* the guard byte and the inUse byte found there are whatever the heap holds
GetState_begin(t, id) ==
  /\ Idle(t)
  /\ UNCHANGED nonIdVars
  /\ pure' = FALSE
  /\ IF randomizeIDs
       THEN /\ IF id \notin DOMAIN idStatesMap
                 THEN /\ Return(t, "get", id, NoCtx)
                      /\ UNCHANGED <<idStatesMap, outstanding, status>>
                 ELSE /\ idStatesMap' = MapErase(idStatesMap, id)
                      /\ outstanding' = outstanding - 1
                      /\ status' = Observe(idStatesMap[id].internal, "seen")
                      /\ Return(t, "get", id, idStatesMap[id].internal)
            /\ UNCHANGED <<idStates, oob>>
       ELSE IF getStateOutOfRange(id)
         THEN /\ Return(t, "get", id, NoCtx)
              /\ UNCHANGED <<idStates, idStatesMap, outstanding, status, oob>>
         ELSE IF id \notin Slots
           THEN /\ \E lockedByte \in BOOLEAN :
                     IF lockedByte
                       THEN Return(t, "get", id, NoCtx)
                       ELSE Goto(t, "get_body", [id |-> id, ctx |-> NoCtx])
                /\ UNCHANGED <<idStates, idStatesMap, outstanding, status, oob>>
           ELSE /\ IF CanAcquire(idStates[id])
                     THEN /\ idStates' = [idStates EXCEPT ![id] = Lock(@)]
                          /\ Goto(t, "get_body", [id |-> id, ctx |-> NoCtx])
                     ELSE /\ Return(t, "get", id, NoCtx)
                          /\ UNCHANGED idStates
                /\ UNCHANGED <<idStatesMap, outstanding, status, oob>>
  /\ UNCHANGED <<randomizeIDs, reuseds, idOffset, socketsOffset, wpc, widx, origin, scans>>
  /\ getChain' = IF getChain = "got" /\ ret.op = "get" /\ ret.id = id
                   THEN (IF pc'[t] = "idle" THEN "done" ELSE "again")
                   ELSE IF ret'.op = "get" /\ ret'.ctx \in Ctxs THEN "got" ELSE "none"

GetState_body(t) ==
  /\ pc[t] = "get_body"
  /\ UNCHANGED nonIdVars
  /\ LET i == loc[t].id IN
     IF i \notin Slots
       THEN /\ \E inUseByte \in BOOLEAN :
                 IF inUseByte
                   THEN /\ oob < MaxOob
                        /\ oob' = oob + 1
                        /\ outstanding' = outstanding - 1
                        /\ Return(t, "get", i, Garbage)
                   ELSE /\ UNCHANGED <<outstanding, oob>>
                        /\ Return(t, "get", i, NoCtx)
            /\ UNCHANGED <<idStates, status, scans>>
       ELSE LET ids == idStates[i] IN
            /\ UNCHANGED oob
            /\ scans' = [scans EXCEPT ![i] = 0]
            /\ outstanding' = IF ids.inUse THEN outstanding - 1 ELSE outstanding
            /\ status' = IF ids.inUse THEN Observe(ids.internal, "seen") ELSE status
            /\ idStates' = [idStates EXCEPT ![i] = Unlock(getStateSlot(ids))]
            /\ Return(t, "get", i, IF ids.inUse THEN ids.internal ELSE NoCtx)
  /\ UNCHANGED <<randomizeIDs, idStatesMap, reuseds, idOffset, socketsOffset, wpc,
                 widx, origin, pure>>
  /\ getChain' = IF getChain = "again" THEN "done"
                   ELSE IF ret'.ctx \in Ctxs THEN "got" ELSE "none"

\* ------------------------------------------------------ handleUDPTimeouts
\* the range-for moves on to the next slot, or the scan ends
Advance ==
  IF widx = NumSlots - 1
    THEN wpc' = "idle" /\ widx' = 0
    ELSE wpc' = "check" /\ widx' = widx + 1

\* the randomized branch, under the map's lock: expired entries are handed to
\* handleUDPTimeout and erased, the others age by one
ExpiredIds == {k \in DOMAIN idStatesMap : isIDSExpired(idStatesMap[k])}

RECURSIVE ObserveAll(_, _, _)
ObserveAll(st, cs, how) ==
  IF cs = {} THEN st
  ELSE LET c == CHOOSE x \in cs : TRUE
       IN ObserveAll(IF c \in Ctxs
                       THEN [st EXCEPT ![c] = IF st[c] = "stored" THEN how ELSE "dup"]
                       ELSE st,
                     cs \ {c}, how)

\* history: one more handleUDPTimeouts call (counted up to UdpTimeout + 3)
CountScan ==
  [i \in Slots |-> IF idStates[i].inUse /\ scans[i] < UdpTimeout + 3
                     THEN scans[i] + 1 ELSE scans[i]]

HandleUDPTimeouts_begin ==
  /\ wpc = "idle"
  /\ UNCHANGED nonIdVars
  /\ getChain' = "none"
  /\ pure' = FALSE
  /\ scans' = IF randomizeIDs THEN scans ELSE CountScan
  /\ IF randomizeIDs
       THEN /\ idStatesMap' = [k \in (DOMAIN idStatesMap) \ ExpiredIds |->
                                [idStatesMap[k] EXCEPT !.age = @ + 1]]
            /\ outstanding' = outstanding - Cardinality(ExpiredIds)
            /\ reuseds' = reuseds + Cardinality(ExpiredIds)
            /\ status' = ObserveAll(status, {idStatesMap[k].internal : k \in ExpiredIds},
                                    "seen")
            /\ UNCHANGED <<wpc, widx>>
       ELSE /\ wpc' = IF outstanding > 0 THEN "check" ELSE "idle"
            /\ widx' = 0
            /\ UNCHANGED <<idStatesMap, outstanding, reuseds, status>>
  /\ ret' = NoRet
  /\ UNCHANGED <<randomizeIDs, idStates, idOffset, socketsOffset, pc, loc, origin, oob>>

\* if (!ids.isInUse()) continue; if (!isIDSExpired(ids, udpTimeout)) ...
Scan_check ==
  /\ wpc = "check"
  /\ UNCHANGED nonIdVars
  /\ getChain' = "none"
  /\ LET ids == idStates[widx] IN
     IF ~ids.inUse THEN Advance
     ELSE IF ~isIDSExpired(ids) THEN wpc' = "inc" /\ UNCHANGED widx
     ELSE wpc' = "acq" /\ UNCHANGED widx
  /\ ret' = NoRet
  /\ UNCHANGED <<randomizeIDs, idStates, idStatesMap, outstanding, reuseds, idOffset,
                 socketsOffset, pc, loc, status, origin, oob, pure, scans>>

\* ++ids.age; continue;
Scan_inc ==
  /\ wpc = "inc"
  /\ UNCHANGED nonIdVars
  /\ getChain' = "none"
  /\ idStates' = [idStates EXCEPT ![widx].age = @ + 1]
  /\ Advance
  /\ ret' = NoRet
  /\ UNCHANGED <<randomizeIDs, idStatesMap, outstanding, reuseds, idOffset,
                 socketsOffset, pc, loc, status, origin, oob, pure, scans>>

\* mutant: the scan goes on to the timeout handling without the guard
Scan_acquire_unguarded ==
  /\ wpc = "acq"
  /\ UNCHANGED nonIdVars
  /\ getChain' = "none"
  /\ idStates' = [idStates EXCEPT ![widx] = Lock(@)]
  /\ wpc' = "held"
  /\ ret' = NoRet
  /\ UNCHANGED <<randomizeIDs, idStatesMap, outstanding, reuseds, idOffset, widx,
                 socketsOffset, pc, loc, status, origin, oob, pure, scans>>

\* auto guard = ids.acquire(); if (!guard) continue;
Scan_acquire ==
  /\ wpc = "acq"
  /\ UNCHANGED nonIdVars
  /\ getChain' = "none"
  /\ IF CanAcquire(idStates[widx])
       THEN /\ idStates' = [idStates EXCEPT ![widx] = Lock(@)]
            /\ wpc' = "held"
            /\ UNCHANGED widx
       ELSE /\ Advance
            /\ UNCHANGED idStates
  /\ ret' = NoRet
  /\ UNCHANGED <<randomizeIDs, idStatesMap, outstanding, reuseds, idOffset,
                 socketsOffset, pc, loc, status, origin, oob, pure, scans>>

\* mutant: the scan does not check again under the guard
Scan_held_norecheck ==
  /\ wpc = "held"
  /\ UNCHANGED nonIdVars
  /\ getChain' = "none"
  /\ LET ids == idStates[widx] IN
     /\ idStates' = [idStates EXCEPT ![widx] = Unlock(handleUDPTimeoutSlot(ids))]
     /\ reuseds' = reuseds + 1
     /\ outstanding' = outstanding - 1
     /\ status' = Observe(ids.internal, "seen")
     /\ scans' = [scans EXCEPT ![widx] = 0]
     /\ ret' = [op |-> "expire", id |-> widx, ctx |-> ids.internal, n |-> scans[widx]]
  /\ Advance
  /\ UNCHANGED <<randomizeIDs, idStatesMap, idOffset, socketsOffset, pc, loc,
                 origin, oob, pure>>

\* check again, now that we have locked this state
Scan_held ==
  /\ wpc = "held"
  /\ UNCHANGED nonIdVars
  /\ getChain' = "none"
  /\ LET ids == idStates[widx] IN
     IF ids.inUse /\ isIDSExpired(ids)
       THEN /\ idStates' = [idStates EXCEPT ![widx] = Unlock(handleUDPTimeoutSlot(ids))]
            /\ reuseds' = reuseds + 1
            /\ outstanding' = outstanding - 1
            /\ status' = Observe(ids.internal, "seen")
            /\ scans' = [scans EXCEPT ![widx] = 0]
            /\ ret' = [op |-> "expire", id |-> widx, ctx |-> ids.internal, n |-> scans[widx]]
       ELSE /\ idStates' = [idStates EXCEPT ![widx] = Unlock(ids)]
            /\ ret' = NoRet
            /\ UNCHANGED <<reuseds, outstanding, status, scans>>
  /\ Advance
  /\ UNCHANGED <<randomizeIDs, idStatesMap, idOffset, socketsOffset, pc, loc,
                 origin, oob, pure>>

\* ------------------------------------------------------------------ system
CallerStep(t) ==
  \/ SaveState_begin(t)
  \/ SaveState_acquire(t)
  \/ SaveState_retry(t)
  \/ SaveState_body(t)
  \/ \E id \in Slots : RestoreState_begin(t, id)
  \/ RestoreState_body(t)
  \/ \E id \in GetIds : GetState_begin(t, id)
  \/ GetState_body(t)

WorkerStep ==
  \/ HandleUDPTimeouts_begin
  \/ Scan_check
  \/ Scan_inc
  \/ Scan_acquire
  \/ Scan_held

\* no call is running and none has been observed
IdInitRest ==
  /\ idStates = [i \in Slots |-> FreshIDState]
  /\ reuseds = 0
  /\ idOffset = 0
  /\ pc = [t \in Callers |-> "idle"]
  /\ loc = [t \in Callers |-> NoLoc]
  /\ ret = NoRet
  /\ wpc = "idle"
  /\ widx = 0
  /\ status = [c \in Ctxs |-> "none"]
  /\ origin = [c \in Ctxs |-> "none"]
  /\ oob = 0
  /\ scans = [i \in Slots |-> 0]
  /\ getChain = "none"

IdInit ==
  /\ randomizeIDs \in BOOLEAN
  /\ idStatesMap = EmptyMap
  /\ outstanding = 0
  /\ socketsOffset = 0
  /\ pure = TRUE
  /\ IdInitRest

\* The threads that manage the connection, the socket indices, fd == -1.
Threads == {"t1", "t2", "t3"}
SockIdx == 1 .. NumSockets
NoFd == "none"

NoCLoc == [op |-> "none", i |-> 0, initialAttempt |-> FALSE, stoppedAtCall |-> FALSE,
           afterStop |-> FALSE, snap |-> <<>>, hadOld |-> FALSE, outcome |-> "none"]

NoCRet == [op |-> "none", res |-> FALSE, why |-> "none", outcome |-> "none",
           inflight |-> FALSE, stoppedAtFail |-> FALSE, stoppedAtCall |-> FALSE,
           afterStop |-> FALSE, same |-> TRUE, hadOld |-> FALSE]

\* the backend after connectUDPSockets has set every fd to -1, before reconnect(true)
ConnInit ==
  /\ remoteIsAny \in BOOLEAN
  /\ connected = FALSE
  /\ d_stopped = FALSE
  /\ sockets = [i \in SockIdx |-> NoFd]
  /\ connectLock = "free"
  /\ threadStarted = FALSE
  /\ cpc = [t \in Threads |-> "idle"]
  /\ cloc = [t \in Threads |-> NoCLoc]
  /\ cret = NoCRet
  /\ stopReturned = FALSE
  /\ openFds = 0

HashThreads == {"h1", "h2"}
Ids == 1 .. MaxId
\* arguments of setWeight: valid weights, and 0 and -1
WeightArgs == (0 - 1) .. MaxWeight

NoHLoc == [op |-> "none", arg |-> 0, w |-> 0, id |-> 0, k |-> 0,
           stoppedAtCall |-> FALSE, snap |-> <<>>]

NoHRet == [op |-> "none", arg |-> 0, w |-> 0, stoppedAtCall |-> FALSE, same |-> TRUE]

\* a backend as constructed: weight 1, its own id, no hashes yet
HashInit ==
  /\ d_weight = 1
  /\ d_id = 1
  /\ hashes = <<>>
  /\ hashesLock = "free"
  /\ hashesComputed = FALSE
  /\ hpc = [t \in HashThreads |-> "idle"]
  /\ hloc = [t \in HashThreads |-> NoHLoc]
  /\ hret = NoHRet

Backends == 1 .. NumBackends
Orders == 1 .. MaxOrder
Configs == [order : Orders, useECS : BOOLEAN, disableZeroScope : BOOLEAN,
            tcpOnly : BOOLEAN]
DefaultConfig == [order |-> 1, useECS |-> FALSE, disableZeroScope |-> FALSE,
                  tcpOnly |-> FALSE]

NoPRet == [op |-> "none", b |-> 0, found |-> FALSE, wasConsistent |-> FALSE,
           ran |-> FALSE]

\* an empty pool over backends with the given configurations
PoolInit(c) ==
  /\ cfg = c
  /\ d_servers = <<>>
  /\ d_useECS = FALSE
  /\ d_zeroScope = TRUE
  /\ d_tcpOnly = FALSE
  /\ d_isConsistent = TRUE
  /\ pret = NoPRet

NoPickRet == [op |-> "none", idx |-> 0, before |-> 0]

\* the backend has d_numberOfSockets sockets, nothing has been picked yet
PickInit ==
  /\ numberOfSockets = NumSockets
  /\ d_randomizeUDPSockets = FALSE
  /\ picks = <<>>
  /\ pickRet = NoPickRet

IncThreads == {"i1", "i2"}

\* a backend without TCP connections
TcpInit ==
  /\ tcpCurrentConnections = 0
  /\ tcpMaxConcurrentConnections = 0
  /\ ipc = [t \in IncThreads |-> "idle"]
  /\ icur = [t \in IncThreads |-> 0]

\* the balancer after its constructor: setPolicy("roundrobin")
PolicyInit ==
  /\ current_policy_ = "roundrobin"
  /\ current_policy_name_ = "roundrobin"
  /\ requests = <<>>

LbAddrs == {"a1", "a2"}
LbIdx == 1 .. NumLbBackends
NoServed == [op |-> "none", ip |-> "", path |-> "none", seen |-> {}, avail |-> <<>>,
             pol |-> [kind |-> "nullopt", pos |-> 0]]

\* the balancer after initializeBackends: one backend per configured server
\* address (an address may be listed in more than one pool), no query counted
LbInitRest ==
  /\ backend_query_count_ = [i \in LbIdx |-> 0]
  /\ served = NoServed

\* where the balancer is not exercised: every backend at a1, all healthy
LbInit ==
  /\ backends_ = [i \in LbIdx |-> "a1"]
  /\ lbHealth = [a \in LbAddrs |-> TRUE]
  /\ LbInitRest

PoolNames == {"", "p1", "p2"}
NoNsRet == [op |-> "none", weight |-> 1, ret |-> 0]

\* no newServer call yet
NsInit ==
  /\ nsObjects = <<>>
  /\ nsPools = [n \in PoolNames |-> <<>>]
  /\ d_backends = <<>>
  /\ nsRet = NoNsRet

Readers == {"r1", "r2"}

\* nobody reads the hash vector
ReadInit ==
  /\ hashReaders = {}
  /\ rpc = [r \in Readers |-> "idle"]
  /\ rseen = [r \in Readers |-> <<>>]

HcPools == 1 .. NumHcPools
NoHcRet == [op |-> "none", pool |-> 0, ok |-> FALSE]

\* the HealthChecker constructor: every pool {false, 0, ...}
HcInit ==
  /\ pool_health_ = [p \in HcPools |-> [is_healthy |-> FALSE, consecutive_failures |-> 0]]
  /\ hcNext = 1
  /\ hadSuccess = [p \in HcPools |-> FALSE]
  /\ hcRet = NoHcRet

NoLuaRet == [op |-> "none", res |-> FALSE]

\* a default-constructed boost::tribool is false
LuaInit ==
  /\ s_noLuaSideEffect = "false"
  /\ luaReset = FALSE
  /\ luaCalls = <<>>
  /\ luaRet = NoLuaRet

ExtInit == LbInit /\ NsInit /\ ReadInit /\ HcInit /\ LuaInit

MiscInit == PickInit /\ TcpInit /\ PolicyInit /\ ExtInit

\* the parts of the state a specification does not exercise
OtherInit == HashInit /\ PoolInit([b \in Backends |-> DefaultConfig]) /\ MiscInit

\* the id table exists only on a backend whose remote is a specific address
\* (the constructor calls connectUDPSockets only if !IsAnyAddress(remote))
Init == IdInit /\ ConnInit /\ ~remoteIsAny /\ OtherInit

Next == CallerStep("c1") \/ WorkerStep

Spec == Init /\ [][Next]_vars

\* calls that do not overlap: one thread runs its call to the end
SeqNext ==
  \/ /\ wpc = "idle"
     /\ \/ SaveState_begin("c1")
        \/ SaveState_acquire("c1")
        \/ SaveState_body("c1")
        \/ \E id \in Slots : RestoreState_begin("c1", id)
        \/ RestoreState_body("c1")
        \/ \E id \in GetIds : GetState_begin("c1", id)
        \/ GetState_body("c1")
  \/ /\ Idle("c1")
     /\ WorkerStep

SpecSeq == Init /\ [][SeqNext]_vars

\* ------------------------------------------------------- claims C1 .. C6
Quiescent == (\A t \in Callers : Idle(t)) /\ wpc = "idle"

Saved == {c \in Ctxs : origin[c] = "save"}

InUseSlots == {i \in Slots : idStates[i].inUse}

\* where a context is stored at the moment
Holders(c) ==
  {i \in Slots : idStates[i].inUse /\ idStates[i].internal = c}
    \cup {k \in DOMAIN idStatesMap : idStatesMap[k].internal = c}

C2_OutstandingCountsInUse ==
  Quiescent =>
    outstanding = IF randomizeIDs THEN Cardinality(DOMAIN idStatesMap)
                  ELSE Cardinality(InUseSlots)

\* C3: sequential mode, table empty at the start, only saveState calls: the
\* first NumSlots calls take NumSlots distinct slots and leave outstanding ==
\* NumSlots; each further call returns an id of the table, adds one to reuseds
\* and leaves outstanding alone.
C3_SaveStateSaturation ==
  (~randomizeIDs /\ pure /\ Quiescent) =>
    LET k == Cardinality(Saved) IN
    /\ k <= NumSlots =>
         /\ outstanding = k
         /\ reuseds = 0
         /\ InUseSlots = 0 .. (k - 1)
         /\ \A c \in Saved : Cardinality(Holders(c)) = 1
    /\ k > NumSlots =>
         /\ outstanding = NumSlots
         /\ reuseds = k - NumSlots
    /\ ret.op = "save" =>
         /\ ret.id \in Slots
         /\ idStates[ret.id].inUse
         /\ idStates[ret.id].internal = ret.ctx

C3_Witness ==
  /\ ~randomizeIDs /\ pure /\ Quiescent
  /\ Cardinality(Saved) = NumSlots + 1
  /\ ret.op = "save"
  /\ reuseds = 1

\* the scan's visit to slot i ends in this step
VisitEnds(i) ==
  /\ wpc \in {"acq", "held"}
  /\ widx = i
  /\ wpc' \notin {"acq", "held"}

\* getState(i) returns in this step
GetEnds(i) == ret'.op = "get" /\ ret'.id = i

\* the step takes context c out of slot i: one decrement, slot free, c seen once
Obtains(i, c) ==
  /\ outstanding' = outstanding - 1
  /\ reuseds' \in {reuseds, reuseds + 1}
  /\ ~idStates'[i].inUse
  /\ ~idStates'[i].locked
  /\ status[c] = "stored"
  /\ status' = [status EXCEPT ![c] = "seen"]

\* the step leaves table, counters and contexts as they were
NoEffect == UNCHANGED <<idStates, outstanding, reuseds, status>>

\* the step only gives the guard of slot i back
OnlyUnlocks(i) ==
  /\ idStates' = [idStates EXCEPT ![i] = Unlock(@)]
  /\ UNCHANGED <<outstanding, reuseds, status>>

\* C4: getState(i) and the expiry path on the same in-use, expired slot of the
\* sequential table: whichever ends its visit either obtains the stored context
\* (outstanding goes down by one, the slot is free, the context is seen once) or
\* finds the guard held by the other thread and changes nothing; on a slot that
\* is free by then it obtains nothing and changes no counter.
C4_GetStateVersusExpiry ==
  [][~randomizeIDs =>
      \A i \in Slots :
        LET ids == idStates[i]
            c == ids.internal
            live == ids.inUse /\ isIDSExpired(ids)
        IN /\ (GetEnds(i) /\ live) =>
                \/ ret'.ctx = c /\ pc["c1"] = "get_body" /\ Obtains(i, c)
                \/ /\ ret'.ctx = NoCtx /\ NoEffect
                   /\ ids.locked /\ wpc = "held" /\ widx = i
           /\ (GetEnds(i) /\ ~ids.inUse) =>
                /\ ret'.ctx = NoCtx
                /\ NoEffect \/ OnlyUnlocks(i)
           /\ (VisitEnds(i) /\ live) =>
                \/ /\ wpc = "held" /\ ret'.op = "expire" /\ ret'.ctx = c
                   /\ Obtains(i, c) /\ reuseds' = reuseds + 1
                \/ /\ wpc = "acq" /\ NoEffect /\ ret'.op # "expire"
                   /\ ids.locked /\ pc["c1"] \in {"get_body", "save_body", "restore_body"}
                   /\ loc["c1"].id = i
           /\ (VisitEnds(i) /\ ~ids.inUse) =>
                /\ ret'.op # "expire"
                /\ NoEffect \/ OnlyUnlocks(i)
   ]_vars

\* getState took the context while the scan, which had found the slot expired,
\* was on its way to the guard
C4_Witness ==
  /\ ~randomizeIDs
  /\ ret.op = "get" /\ ret.ctx \in Ctxs
  /\ wpc = "acq" /\ widx = ret.id

\* C5: in sequential mode getState(id) with id outside 0 .. NumSlots-1 returns
\* nothing, touches no slot and leaves outstanding unchanged.
C5_OutOfRangeGetStateIsInert ==
  ~randomizeIDs =>
    /\ \A t \in Callers : pc[t] = "get_body" => loc[t].id \in Slots
    /\ (ret.op = "get" /\ ret.id \notin Slots) => ret.ctx = NoCtx
    /\ oob = 0

\* C6: sequential mode, a slot allocated by saveState and neither consumed nor
\* reused: after n handleUDPTimeouts calls its age is n, for n up to UdpTimeout+1
\* (each call that finds age <= UdpTimeout adds one and does not reclaim), and
\* the call that reclaims it is call number UdpTimeout+2 after the save.
C6_ReclaimedOnScanTimeoutPlusTwo ==
  (~randomizeIDs /\ Quiescent) =>
    /\ \A i \in InUseSlots :
         idStates[i].internal \in Saved =>
           /\ idStates[i].age = scans[i]
           /\ scans[i] <= UdpTimeout + 1
    /\ (ret.op = "expire" /\ ret.ctx \in Saved) =>
         /\ ret.n = UdpTimeout + 2
         /\ ~idStates[ret.id].inUse

\* ================================================= Part 2: the connection
\* isStopped(): reads d_stopped
isStopped == d_stopped

ReconnectSkips_lockOnly == FALSE

\* reconnect, with the lock owned: if (... || isStopped()) return false
ReconnectSkips == isStopped

\* fd = -1 for every socket (the loop that closes all sockets)
CloseAll_keepsOld(s) == [i \in SockIdx |-> IF s[i] = "fresh" THEN NoFd ELSE s[i]]

CloseAll(s) == [i \in SockIdx |-> NoFd]

\* shutdown(fd, SHUT_RDWR) on every fd != -1
ShutdownAll(s) == [i \in SockIdx |-> IF s[i] # NoFd THEN "shut" ELSE NoFd]

OpenCount(s) == Cardinality({i \in SockIdx : s[i] # NoFd})

\* the call of thread t returns: the thread is idle again
CReturn(t, r) ==
  /\ cpc' = [cpc EXCEPT ![t] = "idle"]
  /\ cloc' = [cloc EXCEPT ![t] = NoCLoc]
  /\ cret' = r

\* the call of thread t moves on to position p with locals l
CGoto(t, p, l) ==
  /\ cpc' = [cpc EXCEPT ![t] = p]
  /\ cloc' = [cloc EXCEPT ![t] = l]
  /\ cret' = NoCRet

ReconnectRet(t, r, why) ==
  [NoCRet EXCEPT !.op = "reconnect", !.res = r, !.why = why,
                 !.outcome = cloc[t].outcome,
                 !.stoppedAtCall = cloc[t].stoppedAtCall,
                 !.afterStop = cloc[t].afterStop,
                 !.same = (cloc[t].snap = <<sockets, connected>>),
                 !.hadOld = cloc[t].hadOld]

\* reconnect: std::unique_lock lock(connectLock, std::try_to_lock)
Reconnect_begin(t, initialAttempt) ==
  /\ cpc[t] = "idle"
  /\ UNCHANGED nonConnVars
  /\ IF connectLock = "free"
       THEN /\ connectLock' = t
            /\ CGoto(t, "rc_check",
                     [NoCLoc EXCEPT !.op = "reconnect",
                                    !.initialAttempt = initialAttempt,
                                    !.stoppedAtCall = d_stopped,
                                    !.afterStop = stopReturned,
                                    !.snap = <<sockets, connected>>])
       ELSE /\ UNCHANGED connectLock
            /\ CReturn(t, [NoCRet EXCEPT
                 !.op = "reconnect", !.res = FALSE, !.why = "busy",
                 !.inflight = (\E u \in Threads \ {t} : cloc[u].op = "reconnect"),
                 !.stoppedAtFail = d_stopped,
                 !.stoppedAtCall = d_stopped,
                 !.afterStop = stopReturned])
  /\ UNCHANGED <<remoteIsAny, connected, d_stopped, sockets, threadStarted,
                 stopReturned, openFds>>

\* reconnect: isStopped() -> return false; IsAnyAddress(remote) -> return true
Reconnect_check(t) ==
  /\ cpc[t] = "rc_check"
  /\ UNCHANGED nonConnVars
  /\ IF ReconnectSkips
       THEN /\ connectLock' = "free"
            /\ CReturn(t, ReconnectRet(t, FALSE, "stopped"))
       ELSE IF remoteIsAny
         THEN /\ connectLock' = "free"
              /\ CReturn(t, ReconnectRet(t, TRUE, "any"))
         ELSE /\ UNCHANGED connectLock
              /\ CGoto(t, "rc_reset", cloc[t])
  /\ UNCHANGED <<remoteIsAny, connected, d_stopped, sockets, threadStarted,
                 stopReturned, openFds>>

\* reconnect: connected = false, before the loop over the sockets
Reconnect_reset(t) ==
  /\ cpc[t] = "rc_reset"
  /\ UNCHANGED nonConnVars
  /\ connected' = FALSE
  /\ CGoto(t, "rc_open", [cloc[t] EXCEPT !.i = 1, !.snap = <<>>,
                                       !.hadOld = (OpenCount(sockets) > 0)])
  /\ UNCHANGED <<remoteIsAny, d_stopped, sockets, connectLock, threadStarted,
                 stopReturned, openFds>>

\* reconnect: shutdown and close the old fd of the socket, open a fresh one
Reconnect_open(t) ==
  /\ cpc[t] = "rc_open"
  /\ UNCHANGED nonConnVars
  /\ LET i == cloc[t].i IN
       /\ sockets' = [sockets EXCEPT ![i] = "fresh"]
       /\ openFds' = IF sockets[i] # NoFd THEN openFds ELSE openFds + 1
  /\ CGoto(t, "rc_connect", cloc[t])
  /\ UNCHANGED <<remoteIsAny, connected, d_stopped, connectLock, threadStarted,
                 stopReturned>>

\* reconnect: setDscp and SConnect succeed (connected = true) or throw
\* (connected = false; break)
Reconnect_connect(t, ok) ==
  /\ cpc[t] = "rc_connect"
  /\ UNCHANGED nonConnVars
  /\ LET i == cloc[t].i IN
       IF ok
         THEN /\ sockets' = [sockets EXCEPT ![i] = "open"]
              /\ connected' = TRUE
              /\ IF i = NumSockets
                   THEN CGoto(t, "rc_after", [cloc[t] EXCEPT !.outcome = "ok"])
                   ELSE CGoto(t, "rc_open", [cloc[t] EXCEPT !.i = i + 1])
         ELSE /\ connected' = FALSE
              /\ UNCHANGED sockets
              /\ CGoto(t, "rc_after", [cloc[t] EXCEPT !.outcome = "fail"])
  /\ UNCHANGED <<remoteIsAny, d_stopped, connectLock, threadStarted, stopReturned,
                 openFds>>

\* reconnect: if (!connected) close all sockets; if (connected) lock.unlock()
Reconnect_after(t) ==
  /\ cpc[t] = "rc_after"
  /\ UNCHANGED nonConnVars
  /\ IF ~connected
       THEN /\ sockets' = CloseAll(sockets)
            /\ openFds' = openFds - (OpenCount(sockets) - OpenCount(sockets'))
            /\ UNCHANGED connectLock
            /\ CGoto(t, "rc_ret", cloc[t])
       ELSE /\ connectLock' = "free"
            /\ UNCHANGED <<sockets, openFds>>
            /\ CGoto(t, "rc_notify", cloc[t])
  /\ UNCHANGED <<remoteIsAny, connected, d_stopped, threadStarted, stopReturned>>

\* mutant: the waiters are not notified
Reconnect_notify_nobody(t) ==
  /\ cpc[t] = "rc_notify"
  /\ UNCHANGED nonConnVars
  /\ cpc' = [cpc EXCEPT ![t] = IF cloc[t].initialAttempt THEN "rc_ret" ELSE "st_check"]
  /\ cret' = [NoCRet EXCEPT !.op = "notify", !.why = "nobody"]
  /\ UNCHANGED <<remoteIsAny, connected, d_stopped, sockets, connectLock,
                 threadStarted, cloc, stopReturned, openFds>>

\* reconnect: d_connectedWait.notify_all(); then start() unless initialAttempt
Reconnect_notify(t) ==
  /\ cpc[t] = "rc_notify"
  /\ UNCHANGED nonConnVars
  /\ cpc' = [u \in Threads |->
               IF u = t THEN (IF cloc[t].initialAttempt THEN "rc_ret" ELSE "st_check")
               ELSE IF cpc[u] = "cv_wait" THEN "wt_lock" ELSE cpc[u]]
  /\ cret' = [NoCRet EXCEPT !.op = "notify",
                            !.why = IF \E u \in Threads : cpc[u] = "cv_wait"
                                      THEN "woke" ELSE "nobody"]
  /\ UNCHANGED <<remoteIsAny, connected, d_stopped, sockets, connectLock,
                 threadStarted, cloc, stopReturned, openFds>>

\* reconnect: return connected (the lock, if still owned, is released)
Reconnect_return(t) ==
  /\ cpc[t] = "rc_ret"
  /\ UNCHANGED nonConnVars
  /\ connectLock' = IF connectLock = t THEN "free" ELSE connectLock
  /\ CReturn(t, ReconnectRet(t, connected, "attempt"))
  /\ UNCHANGED <<remoteIsAny, connected, d_stopped, sockets, threadStarted,
                 stopReturned, openFds>>

\* end of start(): back in reconnect, or the call of start() returns
StartDone(t) ==
  IF cloc[t].op = "reconnect"
    THEN CGoto(t, "rc_ret", cloc[t])
    ELSE CReturn(t, [NoCRet EXCEPT !.op = "start"])

\* start() called from outside reconnect
Start_begin(t) ==
  /\ cpc[t] = "idle"
  /\ UNCHANGED nonConnVars
  /\ CGoto(t, "st_check", [NoCLoc EXCEPT !.op = "start"])
  /\ UNCHANGED <<remoteIsAny, connected, d_stopped, sockets, connectLock,
                 threadStarted, stopReturned, openFds>>

\* start: if (connected && ...
Start_check(t) ==
  /\ cpc[t] = "st_check"
  /\ UNCHANGED nonConnVars
  /\ IF connected THEN CGoto(t, "st_set", cloc[t]) ELSE StartDone(t)
  /\ UNCHANGED <<remoteIsAny, connected, d_stopped, sockets, connectLock,
                 threadStarted, stopReturned, openFds>>

\* start: ... !threadStarted.test_and_set()) the responder thread is created
Start_set(t) ==
  /\ cpc[t] = "st_set"
  /\ UNCHANGED nonConnVars
  /\ threadStarted' = TRUE
  /\ StartDone(t)
  /\ UNCHANGED <<remoteIsAny, connected, d_stopped, sockets, connectLock,
                 stopReturned, openFds>>

\* waitUntilConnected: if (d_stopped) return
Wait_begin(t) ==
  /\ cpc[t] = "idle"
  /\ UNCHANGED nonConnVars
  /\ IF d_stopped
       THEN CReturn(t, [NoCRet EXCEPT !.op = "wait"])
       ELSE CGoto(t, "wt_conn", [NoCLoc EXCEPT !.op = "wait"])
  /\ UNCHANGED <<remoteIsAny, connected, d_stopped, sockets, connectLock,
                 threadStarted, stopReturned, openFds>>

\* waitUntilConnected: if (connected) return
Wait_connected(t) ==
  /\ cpc[t] = "wt_conn"
  /\ UNCHANGED nonConnVars
  /\ IF connected
       THEN CReturn(t, [NoCRet EXCEPT !.op = "wait"])
       ELSE CGoto(t, "wt_lock", cloc[t])
  /\ UNCHANGED <<remoteIsAny, connected, d_stopped, sockets, connectLock,
                 threadStarted, stopReturned, openFds>>

\* waitUntilConnected: the lock is taken (on entry, and again after a wake-up)
Wait_lock(t) ==
  /\ cpc[t] = "wt_lock"
  /\ connectLock = "free"
  /\ UNCHANGED nonConnVars
  /\ connectLock' = t
  /\ CGoto(t, "wt_pred", cloc[t])
  /\ UNCHANGED <<remoteIsAny, connected, d_stopped, sockets, threadStarted,
                 stopReturned, openFds>>

\* waitUntilConnected: the predicate of d_connectedWait.wait, under the lock
Wait_pred(t) ==
  /\ cpc[t] = "wt_pred"
  /\ UNCHANGED nonConnVars
  /\ connectLock' = "free"
  /\ IF connected
       THEN CReturn(t, [NoCRet EXCEPT !.op = "wait"])
       ELSE CGoto(t, "cv_wait", cloc[t])
  /\ UNCHANGED <<remoteIsAny, connected, d_stopped, sockets, threadStarted,
                 stopReturned, openFds>>

\* a condition variable may wake up without a notification
Wait_spurious(t) ==
  /\ cpc[t] = "cv_wait"
  /\ UNCHANGED nonConnVars
  /\ CGoto(t, "wt_lock", cloc[t])
  /\ UNCHANGED <<remoteIsAny, connected, d_stopped, sockets, connectLock,
                 threadStarted, stopReturned, openFds>>

\* stop: if (d_stopped) return
Stop_begin(t) ==
  /\ cpc[t] = "idle"
  /\ UNCHANGED nonConnVars
  /\ IF d_stopped
       THEN /\ CReturn(t, [NoCRet EXCEPT !.op = "stop"])
            /\ stopReturned' = TRUE
       ELSE /\ CGoto(t, "sp_set", [NoCLoc EXCEPT !.op = "stop"])
            /\ UNCHANGED stopReturned
  /\ UNCHANGED <<remoteIsAny, connected, d_stopped, sockets, connectLock,
                 threadStarted, openFds>>

\* stop: d_stopped = true
Stop_set(t) ==
  /\ cpc[t] = "sp_set"
  /\ UNCHANGED nonConnVars
  /\ d_stopped' = TRUE
  /\ CGoto(t, "sp_lock", cloc[t])
  /\ UNCHANGED <<remoteIsAny, connected, sockets, connectLock, threadStarted,
                 stopReturned, openFds>>

\* stop: std::scoped_lock(connectLock)
Stop_lock(t) ==
  /\ cpc[t] = "sp_lock"
  /\ connectLock = "free"
  /\ UNCHANGED nonConnVars
  /\ connectLock' = t
  /\ CGoto(t, "sp_shut", cloc[t])
  /\ UNCHANGED <<remoteIsAny, connected, d_stopped, sockets, threadStarted,
                 stopReturned, openFds>>

\* stop: shutdown() on every open fd, then the lock is released
Stop_shutdown(t) ==
  /\ cpc[t] = "sp_shut"
  /\ UNCHANGED nonConnVars
  /\ sockets' = ShutdownAll(sockets)
  /\ connectLock' = "free"
  /\ stopReturned' = TRUE
  /\ CReturn(t, [NoCRet EXCEPT !.op = "stop"])
  /\ UNCHANGED <<remoteIsAny, connected, d_stopped, threadStarted, openFds>>

ConnStep(t) ==
  \/ \E initialAttempt \in BOOLEAN : Reconnect_begin(t, initialAttempt)
  \/ Reconnect_check(t)
  \/ Reconnect_reset(t)
  \/ Reconnect_open(t)
  \/ \E ok \in BOOLEAN : Reconnect_connect(t, ok)
  \/ Reconnect_after(t)
  \/ Reconnect_notify(t)
  \/ Reconnect_return(t)
  \/ Start_begin(t)
  \/ Start_check(t)
  \/ Start_set(t)
  \/ Wait_begin(t)
  \/ Wait_connected(t)
  \/ Wait_lock(t)
  \/ Wait_pred(t)
  \/ Wait_spurious(t)
  \/ Stop_begin(t)
  \/ Stop_set(t)
  \/ Stop_lock(t)
  \/ Stop_shutdown(t)

\* connection management does not depend on the mode of the id table
InitConn == IdInit /\ ConnInit /\ ~randomizeIDs /\ OtherInit

NextConn == \E t \in Threads : ConnStep(t)

SpecConn == InitConn /\ [][NextConn]_vars

\* no other thread is in the middle of a call (it is idle, or asleep in
\* waitUntilConnected, or woken and waiting for its turn)
Alone(t) == \A u \in Threads \ {t} : cpc[u] \in {"idle", "cv_wait", "wt_lock"}

\* calls that do not overlap
SeqStepConn(t) ==
  \/ \E initialAttempt \in BOOLEAN : Alone(t) /\ Reconnect_begin(t, initialAttempt)
  \/ Alone(t) /\ Reconnect_check(t)
  \/ Alone(t) /\ Reconnect_reset(t)
  \/ Alone(t) /\ Reconnect_open(t)
  \/ \E ok \in BOOLEAN : Alone(t) /\ Reconnect_connect(t, ok)
  \/ Alone(t) /\ Reconnect_after(t)
  \/ Alone(t) /\ Reconnect_notify(t)
  \/ Alone(t) /\ Reconnect_return(t)
  \/ Alone(t) /\ Start_begin(t)
  \/ Alone(t) /\ Start_check(t)
  \/ Alone(t) /\ Start_set(t)
  \/ Alone(t) /\ Wait_begin(t)
  \/ Alone(t) /\ Wait_connected(t)
  \/ Alone(t) /\ Wait_lock(t)
  \/ Alone(t) /\ Wait_pred(t)
  \/ Alone(t) /\ Wait_spurious(t)
  \/ Alone(t) /\ Stop_begin(t)
  \/ Alone(t) /\ Stop_set(t)
  \/ Alone(t) /\ Stop_lock(t)
  \/ Alone(t) /\ Stop_shutdown(t)

SeqNextConn == \E t \in Threads : SeqStepConn(t)

SpecConnSeq == InitConn /\ [][SeqNextConn]_vars

\* ------------------------------------------------------ claims C7 .. C10
AllSockets(v) == \A i \in SockIdx : sockets[i] = v

ReconnectHoldsLock == \E t \in Threads : connectLock = t /\ cloc[t].op = "reconnect"

\* C7: in every state another thread can observe, connected == true implies
\* that no entry of sockets is -1, and connected == false implies that every
\* entry of sockets is -1 or a reconnect is running while holding connectLock.
C7_ConnectedMatchesSockets ==
  /\ connected => \A i \in SockIdx : sockets[i] # NoFd
  /\ ~connected => (AllSockets(NoFd) \/ ReconnectHoldsLock)

Attempted == cret.op = "reconnect" /\ cret.why = "attempt"

C9_SkippedReconnect ==
  /\ \A t \in Threads :
       (cloc[t].op = "reconnect" /\ cpc[t] # "rc_check") => ~cloc[t].stoppedAtCall
  /\ (cret.op = "reconnect"
        /\ (cret.stoppedAtCall \/ cret.afterStop \/ cret.why = "busy")) =>
       (~cret.res /\ cret.same)

\* a reconnect() that began after stop() returned, on a connected backend,
\* has returned
C9_Witness ==
  cret.op = "reconnect" /\ cret.afterStop /\ cret.why = "stopped" /\ connected

\* C10: on a backend that is not stopped, reconnect() finds connectLock busy
\* only while another reconnect() call is in flight.
C10_BusyOnlyDuringReconnect ==
  (cret.op = "reconnect" /\ cret.why = "busy" /\ ~cret.stoppedAtFail) => cret.inflight

\* ==================================== the id multiplexer of a stopped backend
\* calls of saveState / restoreState / getState / handleUDPTimeouts that do
\* not overlap, and a thread that calls stop() between two of them
StopStep(t) ==
  \/ Quiescent /\ Stop_begin(t)
  \/ Quiescent /\ Stop_set(t)
  \/ Quiescent /\ Stop_lock(t)
  \/ Quiescent /\ Stop_shutdown(t)

NextStop == SeqNext \/ StopStep("t1")

SpecStop == Init /\ [][NextStop]_vars

\* ---------------------------------------------------------------- claim C11
SlotsAndCounters == <<outstanding, reuseds, idStates, idStatesMap>>

\* C11: once stop() has returned, no step of a later saveState, restoreState,
\* getState or handleUDPTimeouts call changes outstanding, reuseds or an id
\* slot (every call that runs once stop() has returned began after it).
C11_FrozenAfterStop == [][stopReturned => UNCHANGED SlotsAndCounters]_vars

\* ================================================ Part 3: the hash vector
\* burtleCI("<id>-<k>", hashPerturbation): a fixed function of the string
\* that is neither monotone in k nor in id
BurtleCI(id, k) == (id * 3 + k * 5) % 7

\* the sequence s with x put before its first element greater than x
RECURSIVE InsertSorted(_, _)
InsertSorted(s, x) ==
  IF s = <<>> THEN <<x>>
  ELSE IF x < Head(s) THEN <<x>> \o s
  ELSE <<Head(s)>> \o InsertSorted(Tail(s), x)

RECURSIVE SortAscending(_)
SortAscending(s) ==
  IF s = <<>> THEN <<>> ELSE InsertSorted(SortAscending(Tail(s)), Head(s))

SortHashes_skipped(s) == s

\* std::sort(lockedHashes->begin(), lockedHashes->end())
SortHashes(s) == SortAscending(s)

WeightRejected_negativeOnly(newWeight) == newWeight < 0

\* setWeight: if (newWeight < 1) return
WeightRejected(newWeight) == newWeight < 1

\* a call of thread t returns
HReturn(t) ==
  /\ hpc' = [hpc EXCEPT ![t] = "idle"]
  /\ hloc' = [hloc EXCEPT ![t] = NoHLoc]
  /\ hret' = [NoHRet EXCEPT !.op = hloc[t].op, !.arg = hloc[t].arg, !.w = hloc[t].w,
                            !.stoppedAtCall = hloc[t].stoppedAtCall,
                            !.same = (hloc[t].snap = <<d_weight', d_id', hashes'>>)]

\* the call of thread t moves on to position p with locals l
HGoto(t, p, l) ==
  /\ hpc' = [hpc EXCEPT ![t] = p]
  /\ hloc' = [hloc EXCEPT ![t] = l]
  /\ hret' = NoHRet

\* the locals of a call that begins now; a call on a stopped backend
\* remembers the weight, the id and the hashes it found
HCall(op, arg) ==
  [NoHLoc EXCEPT !.op = op, !.arg = arg, !.stoppedAtCall = d_stopped,
                 !.snap = IF d_stopped THEN <<d_weight, d_id, hashes>> ELSE <<>>]

\* hash() called from outside
Hash_begin(t) ==
  /\ hpc[t] = "idle"
  /\ HGoto(t, "h_read", HCall("hash", 0))
  /\ UNCHANGED <<d_weight, d_id, hashes, hashesLock, hashesComputed>>
  /\ UNCHANGED nonHashVars

\* hash: weight = d_config.d_weight; idStr = format(*d_config.id)
Hash_read(t) ==
  /\ hpc[t] = "h_read"
  /\ HGoto(t, "h_lock", [hloc[t] EXCEPT !.w = d_weight, !.id = d_id])
  /\ UNCHANGED <<d_weight, d_id, hashes, hashesLock, hashesComputed>>
  /\ UNCHANGED nonHashVars

\* mutant: the write lock is taken while readers hold the shared lock
Hash_lock_overReaders(t) ==
  /\ hpc[t] = "h_lock"
  /\ hashesLock = "free"
  /\ hashesLock' = t
  /\ HGoto(t, "h_clear", hloc[t])
  /\ UNCHANGED <<d_weight, d_id, hashes, hashesComputed>>
  /\ UNCHANGED nonHashVars

\* hash: lockedHashes = hashes.write_lock(), which waits for the writer and
\* for the readers that hold the lock
Hash_lock(t) ==
  /\ hpc[t] = "h_lock"
  /\ hashesLock = "free"
  /\ hashReaders = {}
  /\ hashesLock' = t
  /\ HGoto(t, "h_clear", hloc[t])
  /\ UNCHANGED <<d_weight, d_id, hashes, hashesComputed>>
  /\ UNCHANGED nonHashVars

\* hash: lockedHashes->clear(); reserve(weight)
Hash_clear(t) ==
  /\ hpc[t] = "h_clear"
  /\ hashes' = <<>>
  /\ HGoto(t, "h_push", [hloc[t] EXCEPT !.k = hloc[t].w])
  /\ UNCHANGED <<d_weight, d_id, hashesLock, hashesComputed>>
  /\ UNCHANGED nonHashVars

\* hash: while (weight > 0) { push_back(burtleCI("<id>-<weight>")); --weight; }
Hash_push(t) ==
  /\ hpc[t] = "h_push"
  /\ hloc[t].k > 0
  /\ hashes' = Append(hashes, BurtleCI(hloc[t].id, hloc[t].k))
  /\ HGoto(t, "h_push", [hloc[t] EXCEPT !.k = hloc[t].k - 1])
  /\ UNCHANGED <<d_weight, d_id, hashesLock, hashesComputed>>
  /\ UNCHANGED nonHashVars

\* hash: std::sort; hashesComputed = true; the lock is released and hash()
\* returns, and with it the setId or setWeight that called it
Hash_sort(t) ==
  /\ hpc[t] = "h_push"
  /\ hloc[t].k <= 0
  /\ hashes' = SortHashes(hashes)
  /\ hashesComputed' = TRUE
  /\ hashesLock' = "free"
  /\ UNCHANGED <<d_weight, d_id>>
  /\ HReturn(t)
  /\ UNCHANGED nonHashVars

\* setWeight: a weight below 1 is refused, else d_config.d_weight = newWeight
SetWeight_begin(t, newWeight) ==
  /\ hpc[t] = "idle"
  /\ IF WeightRejected(newWeight)
       THEN /\ UNCHANGED d_weight
            /\ hpc' = hpc
            /\ hloc' = hloc
            /\ hret' = [NoHRet EXCEPT !.op = "setWeight", !.arg = newWeight,
                                      !.stoppedAtCall = d_stopped]
       ELSE /\ d_weight' = newWeight
            /\ HGoto(t, "m_check", HCall("setWeight", newWeight))
  /\ UNCHANGED <<d_id, hashes, hashesLock, hashesComputed>>
  /\ UNCHANGED nonHashVars

\* setId: d_config.id = newId
SetId_begin(t, newId) ==
  /\ hpc[t] = "idle"
  /\ d_id' = newId
  /\ HGoto(t, "m_check", HCall("setId", newId))
  /\ UNCHANGED <<d_weight, hashes, hashesLock, hashesComputed>>
  /\ UNCHANGED nonHashVars

\* setId / setWeight: if (hashesComputed) hash()
Mutator_check(t) ==
  /\ hpc[t] = "m_check"
  /\ UNCHANGED <<d_weight, d_id, hashes, hashesLock, hashesComputed>>
  /\ IF hashesComputed
       THEN HGoto(t, "h_read", hloc[t])
       ELSE HReturn(t)
  /\ UNCHANGED nonHashVars

HashStep(t) ==
  \/ Hash_begin(t)
  \/ Hash_read(t)
  \/ Hash_lock(t)
  \/ Hash_clear(t)
  \/ Hash_push(t)
  \/ Hash_sort(t)
  \/ \E newWeight \in WeightArgs : SetWeight_begin(t, newWeight)
  \/ \E newId \in Ids : SetId_begin(t, newId)
  \/ Mutator_check(t)

\* the hash vector does not depend on the id table or on the remote
InitHash == IdInit /\ ConnInit /\ ~randomizeIDs /\ ~remoteIsAny /\ OtherInit

\* threads that call hash, setId and setWeight
NextHash == \E t \in HashThreads : HashStep(t)

SpecHash == InitHash /\ [][NextHash]_vars

HAlone(t) == \A u \in HashThreads \ {t} : hpc[u] = "idle"

\* calls of hash, setId and setWeight that do not overlap
SeqStepHash(t) ==
  \/ HAlone(t) /\ Hash_begin(t)
  \/ HAlone(t) /\ Hash_read(t)
  \/ HAlone(t) /\ Hash_lock(t)
  \/ HAlone(t) /\ Hash_clear(t)
  \/ HAlone(t) /\ Hash_push(t)
  \/ HAlone(t) /\ Hash_sort(t)
  \/ \E newWeight \in WeightArgs : HAlone(t) /\ SetWeight_begin(t, newWeight)
  \/ \E newId \in Ids : HAlone(t) /\ SetId_begin(t, newId)
  \/ HAlone(t) /\ Mutator_check(t)

HQuiescent == \A t \in HashThreads : hpc[t] = "idle"

\* stop() runs between two calls
StopStepHash(t) ==
  \/ HQuiescent /\ Stop_begin(t)
  \/ HQuiescent /\ Stop_set(t)
  \/ HQuiescent /\ Stop_lock(t)
  \/ HQuiescent /\ Stop_shutdown(t)

SeqNextHash == (\E t \in HashThreads : SeqStepHash(t)) \/ StopStepHash("t1")

SpecHashSeq == InitHash /\ [][SeqNextHash]_vars

\* ----------------------------------------------------- claims C12 .. C15
\* C12: setWeight, setId and hash called on a stopped backend leave weight,
\* id and hashes what they were at the call.
C12_MutatorsInertWhenStopped ==
  (hret.op \in {"setWeight", "setId", "hash"} /\ hret.stoppedAtCall) => hret.same

\* a call has returned in which hash() ran to its end, with weight hret.w
HashCompleted == hret.op # "none" /\ hret.w > 0

IsAscending(s) == \A i \in 1 .. (Len(s) - 1) : s[i] <= s[i + 1]

\* C13: when a hash() call completes, hashes has as many entries as the
\* weight that call read and is sorted in ascending order.
C13_HashLenAndSorted ==
  HashCompleted => (Len(hashes) = hret.w /\ IsAscending(hashes))

\* a hash() run by setId with weight 2 or more has completed while the
\* configured weight has meanwhile become another
C13_Witness == HashCompleted /\ hret.op = "setId" /\ hret.w >= 2 /\ d_weight # hret.w

\* C14: once hashesComputed is set, hashes has d_weight entries whenever no
\* hash, setWeight or setId call is in progress.
C14_HashLenTracksWeight == (hashesComputed /\ HQuiescent) => Len(hashes) = d_weight

\* C15: a setWeight(w) with w < 1 returns in the step that calls it and leaves
\* weight, hashes and hashesComputed unchanged.
C15_SetWeightBelowOneIgnored ==
  [][/\ (hret'.op = "setWeight" /\ hret'.arg < 1) =>
          UNCHANGED <<d_weight, hashes, hashesComputed>>
     /\ \A t \in HashThreads : ~(hloc'[t].op = "setWeight" /\ hloc'[t].arg < 1)]_vars

\* setWeight(w) with w < 1 has returned on a backend with computed hashes
C15_Witness ==
  hret.op = "setWeight" /\ hret.arg < 1 /\ hashesComputed /\ d_weight >= 2

\* ================================================== Part 4: the server pool
\* An entry of d_servers is the pair (first, second) = (ordinal, backend);
\* seq is history: the rank of the entry among the entries still in the
\* pool, in the order in which they were added.
OrderOf(e) == cfg[e.second].order

RECURSIVE InsertByOrder_beforeEquals(_, _)
InsertByOrder_beforeEquals(s, e) ==
  IF s = <<>> THEN <<e>>
  ELSE IF OrderOf(e) <= OrderOf(Head(s)) THEN <<e>> \o s
  ELSE <<Head(s)>> \o InsertByOrder_beforeEquals(Tail(s), e)

\* the place std::stable_sort gives the last element of an otherwise sorted
\* list: behind every element whose order is not greater than its own
RECURSIVE InsertByOrder(_, _)
InsertByOrder(s, e) ==
  IF s = <<>> THEN <<e>>
  ELSE IF OrderOf(e) < OrderOf(Head(s)) THEN <<e>> \o s
  ELSE <<Head(s)>> \o InsertByOrder(Tail(s), e)

Renumber_skipped(s) == s

\* for (auto& serv : d_servers) serv.first = idx++
Renumber(s) == [i \in 1 .. Len(s) |-> [s[i] EXCEPT !.first = i]]

\* the loop of removeServer over the rest of the list: the first entry of
\* the backend is erased, the entries behind it are renumbered
RECURSIVE RemoveLoop(_, _, _, _)
RemoveLoop(rest, idx, found, server) ==
  IF rest = <<>> THEN [list |-> <<>>, found |-> found, seq |-> 0]
  ELSE IF found
    THEN LET r == RemoveLoop(Tail(rest), idx + 1, TRUE, server)
         IN [r EXCEPT !.list = <<[Head(rest) EXCEPT !.first = idx]>> \o r.list]
  ELSE IF Head(rest).second = server
    THEN [RemoveLoop(Tail(rest), idx, TRUE, server) EXCEPT !.seq = Head(rest).seq]
  ELSE LET r == RemoveLoop(Tail(rest), idx + 1, FALSE, server)
       IN [r EXCEPT !.list = <<Head(rest)>> \o r.list]

\* history: the ranks of the remaining entries once the entry of rank q is gone
CloseRanks(s, q) ==
  [i \in 1 .. Len(s) |-> [s[i] EXCEPT !.seq = IF s[i].seq > q THEN s[i].seq - 1
                                                ELSE s[i].seq]]

\* the locals of updateConsistency before the loop
ConsistencyStart == [consistent |-> TRUE, first |-> TRUE, useECS |-> FALSE,
                     tcpOnly |-> FALSE, zeroScope |-> TRUE]

ConsistencyStep_ignoresZeroScope(acc, c) ==
  IF acc.first
    THEN [acc EXCEPT !.first = FALSE, !.useECS = c.useECS, !.tcpOnly = c.tcpOnly,
                     !.zeroScope = ~c.disableZeroScope]
    ELSE LET a1 == IF acc.consistent /\ c.useECS # acc.useECS
                     THEN [acc EXCEPT !.consistent = FALSE] ELSE acc
         IN IF c.tcpOnly # a1.tcpOnly
              THEN [a1 EXCEPT !.consistent = FALSE, !.tcpOnly = FALSE] ELSE a1

\* one round of the loop of updateConsistency, on a server with config c
ConsistencyStep(acc, c) ==
  IF acc.first
    THEN [acc EXCEPT !.first = FALSE, !.useECS = c.useECS, !.tcpOnly = c.tcpOnly,
                     !.zeroScope = ~c.disableZeroScope]
    ELSE LET a1 == IF acc.consistent
                        /\ (c.useECS # acc.useECS \/ c.disableZeroScope = acc.zeroScope)
                     THEN [acc EXCEPT !.consistent = FALSE] ELSE acc
         IN IF c.tcpOnly # a1.tcpOnly
              THEN [a1 EXCEPT !.consistent = FALSE, !.tcpOnly = FALSE] ELSE a1

RECURSIVE ConsistencyLoop(_, _)
ConsistencyLoop(s, acc) ==
  IF s = <<>> THEN acc
  ELSE ConsistencyLoop(Tail(s), ConsistencyStep(acc, cfg[Head(s).second]))

\* the flags updateConsistency leaves behind on the list s, when the pool's
\* useECS and zeroScope were u and z before
Recomputed(s, u, z) ==
  LET acc == ConsistencyLoop(s, ConsistencyStart)
  IN [tcpOnly |-> acc.tcpOnly,
      useECS |-> IF acc.consistent THEN acc.useECS ELSE u,
      zeroScope |-> IF acc.consistent THEN acc.zeroScope ELSE z,
      isConsistent |-> acc.consistent]

Flags == [tcpOnly |-> d_tcpOnly, useECS |-> d_useECS, zeroScope |-> d_zeroScope,
          isConsistent |-> d_isConsistent]

SetFlags(f) ==
  /\ d_tcpOnly' = f.tcpOnly
  /\ d_useECS' = f.useECS
  /\ d_zeroScope' = f.zeroScope
  /\ d_isConsistent' = f.isConsistent

\* addServer: emplace_back, stable_sort by order, renumber, updateConsistency
AddServer(b) ==
  /\ Len(d_servers) < MaxPool
  /\ LET count == Len(d_servers)
         e == [first |-> count + 1, second |-> b, seq |-> count + 1]
         sorted == Renumber(InsertByOrder(d_servers, e))
     IN /\ d_servers' = sorted
        /\ SetFlags(Recomputed(sorted, d_useECS, d_zeroScope))
  /\ pret' = [NoPRet EXCEPT !.op = "add", !.b = b, !.wasConsistent = d_isConsistent,
                            !.ran = TRUE]
  /\ UNCHANGED cfg
  /\ UNCHANGED nonPoolVars

\* removeServer: erase and renumber; if (found && !d_isConsistent)
\* updateConsistency
RemoveServer(b) ==
  /\ LET r == RemoveLoop(d_servers, 1, FALSE, b)
         run == r.found /\ ~d_isConsistent
     IN /\ d_servers' = IF r.found THEN CloseRanks(r.list, r.seq) ELSE r.list
        /\ IF run THEN SetFlags(Recomputed(r.list, d_useECS, d_zeroScope))
                  ELSE UNCHANGED <<d_tcpOnly, d_useECS, d_zeroScope, d_isConsistent>>
        /\ pret' = [NoPRet EXCEPT !.op = "remove", !.b = b, !.found = r.found,
                                  !.wasConsistent = d_isConsistent, !.ran = run]
  /\ UNCHANGED cfg
  /\ UNCHANGED nonPoolVars

\* setZeroScope: d_zeroScope = enabled; updateConsistency
SetZeroScope(enabled) ==
  /\ SetFlags(Recomputed(d_servers, d_useECS, enabled))
  /\ pret' = [NoPRet EXCEPT !.op = "setZeroScope", !.wasConsistent = d_isConsistent,
                            !.ran = TRUE]
  /\ UNCHANGED <<cfg, d_servers>>
  /\ UNCHANGED nonPoolVars

\* setECS: d_useECS = useECS; updateConsistency
SetECS(useECS) ==
  /\ SetFlags(Recomputed(d_servers, useECS, d_zeroScope))
  /\ pret' = [NoPRet EXCEPT !.op = "setECS", !.wasConsistent = d_isConsistent,
                            !.ran = TRUE]
  /\ UNCHANGED <<cfg, d_servers>>
  /\ UNCHANGED nonPoolVars

\* the rest of the state is not exercised
PoolRest == IdInit /\ ConnInit /\ ~randomizeIDs /\ ~remoteIsAny /\ HashInit /\ MiscInit

\* backends of any order, with the flags of the default configuration
InitPool ==
  /\ PoolRest
  /\ \E c \in [Backends -> Configs] :
       /\ \A b \in Backends : c[b] = [DefaultConfig EXCEPT !.order = c[b].order]
       /\ PoolInit(c)

\* backends of any flags, with the order of the default configuration (the
\* list is then in the order of the additions)
InitPoolFlags ==
  /\ PoolRest
  /\ \E c \in [Backends -> Configs] :
       /\ \A b \in Backends : c[b].order = DefaultConfig.order
       /\ PoolInit(c)

NextPool ==
  \/ \E b \in Backends : AddServer(b)
  \/ \E b \in Backends : RemoveServer(b)
  \/ \E enabled \in BOOLEAN : SetZeroScope(enabled)
  \/ \E useECS \in BOOLEAN : SetECS(useECS)

SpecPool == InitPool /\ [][NextPool]_vars

SpecPoolFlags == InitPoolFlags /\ [][NextPool]_vars

\* ----------------------------------------------------- claims C16 .. C20
PoolIdx == 1 .. Len(d_servers)

\* C16: after any sequence of addServer and removeServer calls the ordinals
\* of the list are 1, 2, ..., n in list order.
C16_OrdinalsContiguous == \A i \in PoolIdx : d_servers[i].first = i

\* a removeServer has removed the first of several entries of its backend
C16_Witness ==
  /\ pret.op = "remove" /\ pret.found
  /\ \E i \in PoolIdx : d_servers[i].second = pret.b

\* C17: the list is in non-decreasing order of config.order, and entries of
\* equal order are in the order in which they were added.
C17_SortedByOrderStable ==
  \A i, j \in PoolIdx :
    i < j => /\ OrderOf(d_servers[i]) <= OrderOf(d_servers[j])
             /\ OrderOf(d_servers[i]) = OrderOf(d_servers[j]) =>
                  d_servers[i].seq < d_servers[j].seq

\* backends of order 3, 1, 2 were added in that order and the third was
\* removed: the list is second, first
C17_Witness ==
  /\ pret.op = "remove" /\ pret.found /\ Len(d_servers) = 2
  /\ OrderOf(d_servers[1]) = 1 /\ OrderOf(d_servers[2]) = MaxOrder
  /\ d_servers[1].seq = 2 /\ d_servers[2].seq = 1
  /\ cfg[pret.b].order = 2

\* C18: after addServer and after removeServer the flags tcpOnly, useECS,
\* zeroScope and isConsistent are what updateConsistency yields on the
\* current list.
C18_FlagsRecomputedOnChange ==
  pret.op \in {"add", "remove"} => Flags = Recomputed(d_servers, d_useECS, d_zeroScope)

\* C19: a removeServer that removes a member of a consistent pool runs
\* updateConsistency.
C19_RemoveRecomputesIfConsistent ==
  (pret.op = "remove" /\ pret.found /\ pret.wasConsistent) => pret.ran

AllAgree ==
  \A i, j \in PoolIdx :
    LET a == cfg[d_servers[i].second]
        b == cfg[d_servers[j].second]
    IN a.useECS = b.useECS /\ a.disableZeroScope = b.disableZeroScope
         /\ a.tcpOnly = b.tcpOnly

\* C20: after updateConsistency has run, isConsistent is true if and only
\* if all members have the same useECS, disableZeroScope and TCP-only value.
C20_ConsistentIffAllAgree == pret.ran => (d_isConsistent <=> AllAgree)

\* updateConsistency has run on three members of which only the last
\* disagrees with the first, in disableZeroScope alone
C20_Witness ==
  /\ pret.ran /\ Len(d_servers) = 3 /\ ~d_isConsistent
  /\ cfg[d_servers[1].second] = cfg[d_servers[2].second]
  /\ cfg[d_servers[3].second] =
       [cfg[d_servers[1].second] EXCEPT !.disableZeroScope = ~@]

HoldsSaved(i) ==
  IF randomizeIDs
    THEN /\ i \in DOMAIN idStatesMap
         /\ idStatesMap[i].internal \in Saved
         /\ status[idStatesMap[i].internal] = "stored"
    ELSE /\ i \in Slots
         /\ idStates[i].inUse
         /\ idStates[i].internal \in Saved
         /\ status[idStates[i].internal] = "stored"

ContextAt(i) == IF randomizeIDs THEN idStatesMap[i].internal ELSE idStates[i].internal

\* the step changes no slot, the slots' guards aside
SameSlots ==
  /\ idStatesMap' = idStatesMap
  /\ \A i \in Slots : Unlock(idStates'[i]) = Unlock(idStates[i])

\* C22: if saveState(ctx) returned id and the slot still holds ctx, getState(id)
\* returns ctx, frees the slot and takes one from outstanding; a second
\* getState(id) right after returns nothing and changes neither outstanding nor
\* any slot (calls that do not overlap, both modes).
C22_GetStateThenAgain ==
  [][/\ (ret'.op = "get" /\ HoldsSaved(ret'.id)) =>
          /\ ret'.ctx = ContextAt(ret'.id)
          /\ outstanding' = outstanding - 1
          /\ IF randomizeIDs THEN ret'.id \notin DOMAIN idStatesMap'
                ELSE ~idStates'[ret'.id].inUse /\ ~idStates'[ret'.id].locked
          /\ status'[ret'.ctx] = "seen"
     /\ getChain' \in {"again", "done"} =>
          /\ outstanding' = outstanding
          /\ SameSlots
     /\ getChain' = "done" =>
          /\ ret'.op = "get"
          /\ ret'.ctx = NoCtx
          /\ IF randomizeIDs THEN ret'.id \notin DOMAIN idStatesMap'
                ELSE ~idStates'[ret'.id].inUse /\ ~idStates'[ret'.id].locked
    ]_vars

\* the second getState on the id of a context that saveState stored has returned
C22_Witness ==
  /\ getChain = "done"
  /\ ret.op = "get" /\ ret.ctx = NoCtx
  /\ \E c \in Saved : status[c] = "seen"
  /\ reuseds = 0

\* the age of the slot the call that just returned allocated
AllocatedAge ==
  IF randomizeIDs THEN idStatesMap[ret.id].age ELSE idStates[ret.id].age

\* C23: every allocation of a slot, by saveState or by restoreState, leaves the
\* slot's age at 0, and a slot is not expired before UdpTimeout+1 scans have
\* passed since its allocation.
C23_AllocationResetsAge ==
  /\ (ret.op \in {"save", "restore"} /\ status[ret.ctx] = "stored") => AllocatedAge = 0
  /\ ret.op = "expire" => ret.n > UdpTimeout + 1

\* ------------------------------------- randomized mode with a populated map
\* a context put into the map by an earlier restoreState
PriorCtx == MaxCtx + 2

\* ids the map can hold at the start: the first ones and the last two
RandIds == (0 .. (RandSpan - 1)) \cup {UInt16Max - 2, UInt16Max - 1}

\* the state after restoreState calls on the ids of D, socketsOffset at the
\* start of the id space or two before its end
InitRand ==
  /\ randomizeIDs = TRUE
  /\ \E D \in SUBSET RandIds :
       /\ idStatesMap = [k \in D |-> [FreshIDState EXCEPT !.internal = PriorCtx]]
       /\ outstanding = Cardinality(D)
  /\ socketsOffset \in {0, UInt16Max - 2}
  /\ pure = FALSE
  /\ IdInitRest
  /\ ConnInit /\ ~remoteIsAny /\ OtherInit

NextRand ==
  \/ SaveState_begin("c1")
  \/ \E id \in GetIds : GetState_begin("c1", id)
  \/ \E id \in Slots : RestoreState_begin("c1", id)

SpecRand == InitRand /\ [][NextRand]_vars

\* the k-th candidate id of a randomized saveState, k = 0, 1, ...
Candidate(k) == (socketsOffset + k) % UInt16Max

AbsentCandidates == {k \in 0 .. (MaxAttempts - 1) : Candidate(k) \notin DOMAIN idStatesMap}

\* C24: in randomized mode saveState examines at most 5 candidate ids; it
\* returns the first candidate absent from the map, with outstanding one higher
\* and reuseds unchanged; if all 5 are present it stores the new context under
\* the fifth candidate, evicting the previous context, with reuseds one higher
\* and outstanding unchanged.
C24_RandomizedSaveState ==
  [][(randomizeIDs /\ ret'.op = "save") =>
      /\ socketsOffset' - socketsOffset <= 5
      /\ IF AbsentCandidates # {}
           THEN LET k == CHOOSE x \in AbsentCandidates : \A y \in AbsentCandidates : x <= y
                IN /\ ret'.id = Candidate(k)
                   /\ socketsOffset' = socketsOffset + k + 1
                   /\ DOMAIN idStatesMap' = DOMAIN idStatesMap \cup {ret'.id}
                   /\ \A i \in DOMAIN idStatesMap : idStatesMap'[i] = idStatesMap[i]
                   /\ outstanding' = outstanding + 1
                   /\ reuseds' = reuseds
           ELSE /\ ret'.id = Candidate(4)
                /\ socketsOffset' = socketsOffset + 5
                /\ DOMAIN idStatesMap' = DOMAIN idStatesMap
                /\ \A i \in DOMAIN idStatesMap \ {ret'.id} : idStatesMap'[i] = idStatesMap[i]
                /\ idStatesMap[ret'.id].internal # ret'.ctx
                /\ outstanding' = outstanding
                /\ reuseds' = reuseds + 1
      /\ idStatesMap'[ret'.id].internal = ret'.ctx
      /\ idStatesMap'[ret'.id].age = 0
    ]_vars

\* all five candidates, across the end of the id space, were present: the
\* fifth one was taken over
C24_Witness ==
  /\ randomizeIDs
  /\ ret.op = "save"
  /\ ret.id = 2
  /\ socketsOffset = UInt16Max + 3
  /\ reuseds = 1
  /\ idStatesMap[2].internal = ret.ctx

\* --------------------------------- saveState against a second caller, fairly
\* sequential mode: c1 calls saveState, c2 calls getState on the slots of the
\* table, the responder thread scans
InitLive == Init /\ ~randomizeIDs

NextLive ==
  \/ SaveState_begin("c1")
  \/ SaveState_acquire("c1")
  \/ SaveState_retry("c1")
  \/ SaveState_body("c1")
  \/ \E id \in Slots : GetState_begin("c2", id)
  \/ GetState_body("c2")
  \/ WorkerStep

\* every thread that is inside a call goes on: a guard that is held is given
\* back, a loop that can take its next turn takes it; nothing obliges a thread
\* to start a call
LiveFairness ==
  /\ WF_vars(SaveState_acquire("c1"))
  /\ WF_vars(SaveState_retry("c1"))
  /\ WF_vars(SaveState_body("c1"))
  /\ WF_vars(GetState_body("c2"))
  /\ WF_vars(Scan_check \/ Scan_inc \/ Scan_acquire \/ Scan_held)

SpecLive == InitLive /\ [][NextLive]_vars /\ LiveFairness

\* what saveState returns is the id of a slot that holds the caller's context
SaveReturnsHolder ==
  ret.op = "save" =>
    /\ ret.id \in Slots
    /\ idStates[ret.id].inUse
    /\ idStates[ret.id].internal = ret.ctx

InSaveState == pc["c1"] \in {"save_acq", "save_pick", "save_body"}

\* C25 as stated: every saveState call terminates and returns the id of a slot
\* that now holds the caller's context, also when every slot is in use and
\* other threads run concurrently, each releasing its guard after finitely
\* many steps.
C25_SaveStateTerminates ==
  /\ []SaveReturnsHolder
  /\ InSaveState ~> Idle("c1")

\* C25 amended: saveState never returns without having stored the caller's
\* context in the slot whose id it returns, and every call terminates unless
\* other callers keep taking slot guards for ever (it terminates when, from
\* some point on, the only concurrent thread is the responder thread).
C25_SaveStateTerminatesUnlessStarved ==
  /\ []SaveReturnsHolder
  /\ (<>[]Idle("c2")) => (InSaveState ~> Idle("c1"))

\* every slot was in use: saveState has taken over a slot, evicting its context,
\* while the second caller holds the guard of the other slot
C25_Witness ==
  /\ ret.op = "save"
  /\ idStates[ret.id].internal = ret.ctx
  /\ \E c \in Saved : status[c] = "lost"
  /\ pc["c2"] = "get_body"
  /\ loc["c2"].id # ret.id

\* ============================================ Part 6: pickSocketForSending
SocketCounts == 1 .. (NumSockets + 1)

\* idx as pickSocketForSending computes it from socketsOffset
\* (lines 359-366); the index returned is idx % numberOfSockets
PickIdx(off, n, randomize) == IF randomize THEN off % n ELSE off

\* socketsOffset after the call: only the else branch has socketsOffset++
PickOffsetAfter(off, n, randomize) == IF randomize THEN off ELSE off + 1

\* the indices of the latest calls, at most n of them
Latest(s, n) == IF Len(s) > n THEN SubSeq(s, Len(s) - n + 1, Len(s)) ELSE s

PickSocketForSending ==
  /\ socketsOffset <= MaxPickOffset
  /\ LET n == numberOfSockets
         idx == IF n = 1 THEN 0
                ELSE PickIdx(socketsOffset, n, d_randomizeUDPSockets) % n
     IN /\ socketsOffset' = IF n = 1 THEN socketsOffset
                             ELSE PickOffsetAfter(socketsOffset, n, d_randomizeUDPSockets)
        /\ pickRet' = [op |-> "pick", idx |-> idx, before |-> socketsOffset]
        /\ picks' = Latest(Append(picks, idx), n)
  /\ UNCHANGED <<numberOfSockets, d_randomizeUDPSockets>>
  /\ UNCHANGED <<randomizeIDs, idStates, idStatesMap, outstanding, reuseds, idOffset,
                 pc, loc, ret, wpc, widx, status, origin, oob, pure, scans, getChain>>
  /\ UNCHANGED <<connvars, hashvars, poolvars, tcpvars, policyvars, extvars>>

\* a backend with 1 .. NumSockets+1 sockets, with or without randomization,
\* socketsOffset anywhere in its run
InitPick ==
  /\ randomizeIDs = FALSE
  /\ idStatesMap = EmptyMap
  /\ outstanding = 0
  /\ socketsOffset \in 0 .. MaxPickOffset
  /\ pure = TRUE
  /\ IdInitRest
  /\ ConnInit /\ ~remoteIsAny
  /\ HashInit /\ PoolInit([b \in Backends |-> DefaultConfig])
  /\ numberOfSockets \in SocketCounts
  /\ d_randomizeUDPSockets \in BOOLEAN
  /\ picks = <<>>
  /\ pickRet = NoPickRet
  /\ TcpInit /\ PolicyInit /\ ExtInit

NextPick == PickSocketForSending

SpecPick == InitPick /\ [][NextPick]_vars

\* C26: with one socket pickSocketForSending returns the only fd; with n > 1
\* sockets each call returns sockets[socketsOffset mod n] and advances
\* socketsOffset by one, with randomization disabled and with it enabled, so
\* any n consecutive calls return each of the n sockets exactly once.
C26_PickRoundRobin ==
  /\ (pickRet.op = "pick" /\ numberOfSockets = 1) => pickRet.idx = 0
  /\ (pickRet.op = "pick" /\ numberOfSockets > 1) =>
       /\ pickRet.idx = pickRet.before % numberOfSockets
       /\ socketsOffset = pickRet.before + 1
  /\ (numberOfSockets > 1 /\ Len(picks) = numberOfSockets) =>
       {picks[i] : i \in 1 .. Len(picks)} = 0 .. (numberOfSockets - 1)

\* ===================================== Part 7: the responder thread's start
\* the step creates the responder thread: test_and_set found the flag clear
ThreadCreated == ~threadStarted /\ threadStarted'

\* the thread that takes the step from the test_and_set of start()
Starter(t) == cpc[t] = "st_set" /\ cpc'[t] # "st_set"

\* the responder thread is created at most once: the flag is never cleared
StartedAtMostOnce == threadStarted => threadStarted'

\* the responder thread is never created by reconnect(true)
NotByInitialAttempt ==
  \A t \in Threads :
    (ThreadCreated /\ Starter(t)) => ~(cloc[t].op = "reconnect" /\ cloc[t].initialAttempt)

\* C27: in any interleaving of reconnect(false), reconnect(true) and start()
\* the worker thread is started at most once, never while connected is false,
\* and never by reconnect(true).
C27_WorkerStartedOnceWhenConnected ==
  [][/\ StartedAtMostOnce
     /\ ThreadCreated => connected
     /\ NotByInitialAttempt]_vars

\* ==================================== Part 8: waitUntilConnected, fairly
\* the steps thread t takes inside a call, the two blocking lock() calls aside
InCallStep(t) ==
  \/ Reconnect_check(t)
  \/ Reconnect_reset(t)
  \/ Reconnect_open(t)
  \/ \E ok \in BOOLEAN : Reconnect_connect(t, ok)
  \/ Reconnect_after(t)
  \/ Reconnect_notify(t)
  \/ Reconnect_return(t)
  \/ Start_check(t)
  \/ Start_set(t)
  \/ Wait_connected(t)
  \/ Wait_pred(t)
  \/ Stop_set(t)
  \/ Stop_shutdown(t)

\* a thread inside a call goes on; a thread blocked in lock() gets the mutex
\* if it is free again and again; nothing obliges a thread to start a call, and
\* nothing obliges a condition variable to wake up without a notification
ConnFairness ==
  \A t \in Threads :
    /\ WF_vars(InCallStep(t))
    /\ SF_vars(Wait_lock(t))
    /\ SF_vars(Stop_lock(t))

\* one thread reconnects and stops, the two others wait
Waiters == Threads \ {"t1"}

NextWait ==
  \/ \E initialAttempt \in BOOLEAN : Reconnect_begin("t1", initialAttempt)
  \/ Reconnect_check("t1")
  \/ Reconnect_reset("t1")
  \/ Reconnect_open("t1")
  \/ \E ok \in BOOLEAN : Reconnect_connect("t1", ok)
  \/ Reconnect_after("t1")
  \/ Reconnect_notify("t1")
  \/ Reconnect_return("t1")
  \/ Start_check("t1")
  \/ Start_set("t1")
  \/ Stop_begin("t1")
  \/ Stop_set("t1")
  \/ Stop_lock("t1")
  \/ Stop_shutdown("t1")
  \/ \E t \in Waiters : Wait_begin(t)
  \/ \E t \in Waiters : Wait_connected(t)
  \/ \E t \in Waiters : Wait_lock(t)
  \/ \E t \in Waiters : Wait_pred(t)
  \/ \E t \in Waiters : Wait_spurious(t)

SpecConnFair == InitConn /\ [][NextWait]_vars /\ ConnFairness

InWait(t) == cloc[t].op = "wait"

\* C28: every thread blocked in waitUntilConnected() returns once a reconnect
\* has succeeded and connected stays true; a successful reconnect leaves no
\* waiter asleep.
C28_WaitersReleased ==
  \A t \in Threads : (<>[]connected) => (InWait(t) ~> ~InWait(t))

\* a successful reconnect has just notified a sleeping waiter, which is now on
\* its way to the lock with connected true
C28_Witness ==
  /\ cret.op = "notify" /\ cret.why = "woke"
  /\ connected
  /\ \E t \in Threads : cpc[t] = "wt_lock" /\ InWait(t)

\* ===================================== Part 9: incCurrentConnectionsCount
nonTcpVars == <<idvars, connvars, hashvars, poolvars, pickvars, policyvars, extvars>>

\* auto currentConnectionsCount = ++tcpCurrentConnections
Inc_begin(t) ==
  /\ ipc[t] = "idle"
  /\ tcpCurrentConnections < MaxConns
  /\ tcpCurrentConnections' = tcpCurrentConnections + 1
  /\ icur' = [icur EXCEPT ![t] = tcpCurrentConnections + 1]
  /\ ipc' = [ipc EXCEPT ![t] = "compare"]
  /\ UNCHANGED tcpMaxConcurrentConnections
  /\ UNCHANGED nonTcpVars

\* if (currentConnectionsCount > tcpMaxConcurrentConnections): a load
Inc_compare(t) ==
  /\ ipc[t] = "compare"
  /\ IF icur[t] > tcpMaxConcurrentConnections
       THEN /\ ipc' = [ipc EXCEPT ![t] = "store"]
            /\ UNCHANGED icur
       ELSE /\ ipc' = [ipc EXCEPT ![t] = "idle"]
            /\ icur' = [icur EXCEPT ![t] = 0]
  /\ UNCHANGED <<tcpCurrentConnections, tcpMaxConcurrentConnections>>
  /\ UNCHANGED nonTcpVars

\* tcpMaxConcurrentConnections.store(currentConnectionsCount)
Inc_store(t) ==
  /\ ipc[t] = "store"
  /\ tcpMaxConcurrentConnections' = icur[t]
  /\ ipc' = [ipc EXCEPT ![t] = "idle"]
  /\ icur' = [icur EXCEPT ![t] = 0]
  /\ UNCHANGED tcpCurrentConnections
  /\ UNCHANGED nonTcpVars

IncStep(t) == Inc_begin(t) \/ Inc_compare(t) \/ Inc_store(t)

InitTcp == IdInit /\ ConnInit /\ ~randomizeIDs /\ ~remoteIsAny /\ OtherInit

NextTcp == \E t \in IncThreads : IncStep(t)

SpecTcp == InitTcp /\ [][NextTcp]_vars

\* every incCurrentConnectionsCount call has returned
IncQuiescent == \A t \in IncThreads : ipc[t] = "idle"

\* C29: under concurrent incCurrentConnectionsCount calls
\* tcpMaxConcurrentConnections never decreases and, once all calls have
\* returned, is at least the largest value tcpCurrentConnections has reached
\* (which, with increments only, is its current value).
C29_MaxNeverBelowPeak ==
  [][/\ tcpMaxConcurrentConnections' >= tcpMaxConcurrentConnections
     /\ IncQuiescent' => tcpMaxConcurrentConnections' >= tcpCurrentConnections'
    ]_vars

\* ================================================== Part 10: setPolicy
PolicyNames ==
  {"firstAvailable", "roundrobin", "leastOutstanding", "wrandom", "whashed", "chashed",
   "orderedWrandUntag"}

\* the names a caller can pass: the seven of the selector and one that is none
RequestedNames == PolicyNames \cup {"noSuchPolicy"}

\* the if / else-if chain of setPolicy: the policy that becomes current
PolicyFor(policy_name) ==
  IF policy_name = "roundrobin" THEN "roundrobin"
  ELSE IF policy_name = "leastOutstanding" THEN "leastOutstanding"
  ELSE IF policy_name = "wrandom" THEN "wrandom"
  ELSE IF policy_name = "whashed" THEN "whashed"
  ELSE IF policy_name = "chashed" THEN "chashed"
  ELSE IF policy_name = "firstAvailable" THEN "firstAvailable"
  ELSE "roundrobin"

SetPolicy(policy_name) ==
  /\ Len(requests) < MaxPolicyCalls
  /\ current_policy_' = PolicyFor(policy_name)
  /\ current_policy_name_' = PolicyFor(policy_name)
  /\ requests' = Append(requests, policy_name)
  /\ UNCHANGED <<idvars, connvars, hashvars, poolvars, pickvars, tcpvars, extvars>>

InitPolicy == IdInit /\ ConnInit /\ ~randomizeIDs /\ ~remoteIsAny /\ OtherInit

NextPolicy == \E policy_name \in RequestedNames : SetPolicy(policy_name)

SpecPolicy == InitPolicy /\ [][NextPolicy]_vars

\* C30: each of the seven policy names, passed to the policy-by-name binding,
\* makes that very policy the active one.
C30_PolicyByName ==
  (requests # <<>> /\ requests[Len(requests)] \in PolicyNames) =>
    /\ current_policy_name_ = requests[Len(requests)]
    /\ current_policy_ = requests[Len(requests)]

\* ============================================ Part 11: getServerForQuery
\* what the bound policy function can hand back: no position, a position
\* (the last one is past the end of any candidate vector), or an exception
PolicyResults ==
  {[kind |-> "nullopt", pos |-> 0], [kind |-> "throw", pos |-> 0]}
    \cup {[kind |-> "pos", pos |-> n] : n \in 0 .. NumLbBackends}

\* a filter that keeps every backend, healthy or not
AvailableServers_unfiltered(i, health) == [k \in 1 .. (NumLbBackends - i + 1) |-> k + i - 1]

\* the loop of lines 63-71: the backends whose address the health checker
\* reports healthy, in the order of backends_
RECURSIVE AvailableServers(_, _)
AvailableServers(i, health) ==
  IF i > NumLbBackends THEN <<>>
  ELSE IF health[backends_[i]]
         THEN <<i>> \o AvailableServers(i + 1, health)
         ELSE AvailableServers(i + 1, health)

\* line 85: selected_pos.has_value() && *selected_pos < available_servers.size()
PolicySelected(pol, available_servers) ==
  pol.kind = "pos" /\ pol.pos < Len(available_servers)

\* the backend getServerForQuery answers with: 0 for the empty string
ServerForQuery(pol, available_servers) ==
  IF available_servers = <<>> THEN 0
  ELSE IF PolicySelected(pol, available_servers) THEN available_servers[pol.pos + 1]
  ELSE available_servers[1]

GetServerForQuery(pol) ==
  LET available_servers == AvailableServers(1, lbHealth)
      b == ServerForQuery(pol, available_servers)
      byPolicy == available_servers # <<>> /\ PolicySelected(pol, available_servers)
  IN /\ byPolicy => backend_query_count_[b] < MaxLbQueries
     /\ backend_query_count_' =
          IF byPolicy THEN [backend_query_count_ EXCEPT ![b] = @ + 1]
          ELSE backend_query_count_
     /\ served' = [op |-> "query",
                   ip |-> IF b = 0 THEN "" ELSE backends_[b],
                   path |-> IF b = 0 THEN "none"
                            ELSE IF byPolicy THEN "policy" ELSE "fallback",
                   seen |-> {a \in LbAddrs : lbHealth[a]},
                   avail |-> available_servers,
                   pol |-> pol]
     /\ UNCHANGED <<backends_, lbHealth>>
     /\ UNCHANGED <<idvars, connvars, hashvars, poolvars, pickvars, tcpvars, policyvars>>
     /\ UNCHANGED <<nsvars, readvars, hcvars, luavars>>

\* the health checker changes what it reports for an address
HealthReport(a, up) ==
  /\ lbHealth[a] # up
  /\ lbHealth' = [lbHealth EXCEPT ![a] = up]
  /\ served' = NoServed
  /\ UNCHANGED <<backends_, backend_query_count_>>
  /\ UNCHANGED <<idvars, connvars, hashvars, poolvars, pickvars, tcpvars, policyvars>>
  /\ UNCHANGED <<nsvars, readvars, hcvars, luavars>>

\* any assignment of addresses to the backends, any health report
InitLb ==
  /\ IdInit /\ ConnInit /\ ~randomizeIDs /\ ~remoteIsAny
  /\ HashInit /\ PoolInit([b \in Backends |-> DefaultConfig])
  /\ PickInit /\ TcpInit /\ PolicyInit
  /\ backends_ \in [LbIdx -> LbAddrs]
  /\ lbHealth \in [LbAddrs -> BOOLEAN]
  /\ LbInitRest
  /\ NsInit /\ ReadInit /\ HcInit /\ LuaInit

NextLb ==
  \/ \E pol \in PolicyResults : GetServerForQuery(pol)
  \/ \E a \in LbAddrs, up \in BOOLEAN : HealthReport(a, up)

SpecLb == InitLb /\ [][NextLb]_vars

\* the policy returned none, or an index outside the candidate vector
NoSelection(pol, available_servers) ==
  pol.kind = "nullopt" \/ (pol.kind = "pos" /\ pol.pos >= Len(available_servers))

\* C31: when the active policy returns no selection (none, or an index outside
\* the candidate vector) for a non-empty candidate set, the dispatch reports no
\* backend to the caller: no other backend is substituted.
C31_NoSelectionReported ==
  (served.op = "query" /\ served.avail # <<>> /\ NoSelection(served.pol, served.avail))
    => served.ip = ""

C32_WitnessFallback ==
  /\ served.op = "query" /\ served.path = "fallback"
  /\ backends_[1] \notin served.seen

\* ===================================================== Part 12: newServer
\* the pools a configuration names: none, one, or both
PoolChoices == {{}, {"p1"}, {"p1", "p2"}}
\* weights a configuration can carry: negative, zero, the default, the largest
NsWeights == {0 - 1, 0, 1, MaxWeight}
NsOrders == {1, MaxOrder}

\* a check that lets weight 0 through
NewServerRejects_negativeOnly(weight) == weight < 0

\* dnsdist-lua.cc line 320: if (config.d_weight < 1) return the empty pointer
NewServerRejects(weight) == weight < 1

\* registerNewBackend: push_back, then stable_sort by d_config.order
RECURSIVE RegisterNewBackend(_, _, _)
RegisterNewBackend(backends, b, objs) ==
  IF backends = <<>> THEN <<b>>
  ELSE IF objs[b].order < objs[backends[Len(backends)]].order
         THEN Append(RegisterNewBackend(SubSeq(backends, 1, Len(backends) - 1), b, objs),
                     backends[Len(backends)])
         ELSE Append(backends, b)

\* the DownstreamState constructor: d_config is the configuration handed in
\* (setWeight, called when the weight is > 0, stores the same weight), the UDP
\* sockets are connected when asked to and possible
ConstructBackend(weight, order, pools, connects) ==
  [d_weight |-> weight,
   order |-> order,
   pools |-> pools,
   connected |-> connects,
   started |-> FALSE]

\* newServer with a weight, an order, the pools named and an address that
\* parses to a usable remote or does not; connects: the constructor is asked
\* to connect and connectUDPSockets succeeds; configDone: the immutable
\* configuration is done, so a connected backend is started
NewServer(weight, order, pools, addrOk, connects, configDone) ==
  /\ Len(nsObjects) < MaxNewServers
  /\ IF NewServerRejects(weight) \/ ~addrOk
       THEN /\ nsRet' = [op |-> "newServer", weight |-> weight, ret |-> 0]
            /\ UNCHANGED <<nsObjects, nsPools, d_backends>>
       ELSE LET b == Len(nsObjects) + 1
                made == ConstructBackend(weight, order, pools, connects)
                obj == [made EXCEPT !.started = made.connected /\ configDone]
                objs == Append(nsObjects, obj)
                into == IF pools = {} THEN {""} ELSE pools
            IN /\ nsObjects' = objs
               /\ nsPools' = [n \in PoolNames |->
                               IF n \in into THEN Append(nsPools[n], b) ELSE nsPools[n]]
               /\ d_backends' = RegisterNewBackend(d_backends, b, objs)
               /\ nsRet' = [op |-> "newServer", weight |-> weight, ret |-> b]
  /\ UNCHANGED <<idvars, connvars, hashvars, poolvars, pickvars, tcpvars, policyvars>>
  /\ UNCHANGED <<lbvars, readvars, hcvars, luavars>>

InitNs == IdInit /\ ConnInit /\ ~randomizeIDs /\ ~remoteIsAny /\ OtherInit

NextNs ==
  \E weight \in NsWeights, order \in NsOrders, pools \in PoolChoices,
     addrOk \in BOOLEAN, connects \in BOOLEAN, configDone \in BOOLEAN :
    NewServer(weight, order, pools, addrOk, connects, configDone)

SpecNs == InitNs /\ [][NextNs]_vars

GuardHolders(s) ==
  {t \in Callers : pc[t] \in {"save_body", "restore_body", "get_body"} /\ loc[t].id = s}
    \cup (IF wpc = "held" /\ widx = s THEN {"responder"} ELSE {})

\* C34: in sequential mode at most one of saveState, restoreState, getState
\* and the expiry path holds the guard of a given slot at any time, and the
\* in-use flag and the stored context of a slot are written only by the
\* operation that holds that slot's guard (in the step that ends its hold).
C34_GuardExclusive ==
  [][~randomizeIDs =>
       \A s \in Slots :
         /\ Cardinality(GuardHolders(s)') <= 1
         /\ idStates'[s].locked <=> GuardHolders(s)' # {}
         /\ (idStates'[s].inUse # idStates[s].inUse
               \/ idStates'[s].internal # idStates[s].internal)
              => \E h \in GuardHolders(s) : h \notin GuardHolders(s)'
    ]_vars

\* the responder thread is about to try the guard of a slot a caller holds
C34_Witness ==
  /\ ~randomizeIDs
  /\ \E s \in Slots : GuardHolders(s) = {"c1"} /\ wpc = "acq" /\ widx = s

\* ===================================== Part 14: readers of the hash vector
\* a consistent-hashed run on a backend whose hashes have been computed:
\* hashes.read_lock() waits while hash() holds the write lock
Read_lock(r) ==
  /\ rpc[r] = "idle"
  /\ hashesComputed
  /\ hashesLock = "free"
  /\ hashReaders' = hashReaders \cup {r}
  /\ rpc' = [rpc EXCEPT ![r] = "r_held"]
  /\ UNCHANGED rseen
  /\ hret' = NoHRet
  /\ UNCHANGED <<d_weight, d_id, hashes, hashesLock, hashesComputed, hpc, hloc>>
  /\ UNCHANGED <<idvars, connvars, poolvars, pickvars, tcpvars, policyvars, lbvars, nsvars,
                 hcvars, luavars>>

\* the reader walks the vector
Read_observe(r) ==
  /\ rpc[r] = "r_held"
  /\ rseen' = [rseen EXCEPT ![r] = hashes]
  /\ rpc' = [rpc EXCEPT ![r] = "r_seen"]
  /\ UNCHANGED hashReaders
  /\ hret' = NoHRet
  /\ UNCHANGED <<d_weight, d_id, hashes, hashesLock, hashesComputed, hpc, hloc>>
  /\ UNCHANGED <<idvars, connvars, poolvars, pickvars, tcpvars, policyvars, lbvars, nsvars,
                 hcvars, luavars>>

\* the holder goes out of scope
Read_unlock(r) ==
  /\ rpc[r] = "r_seen"
  /\ hashReaders' = hashReaders \ {r}
  /\ rpc' = [rpc EXCEPT ![r] = "idle"]
  /\ rseen' = [rseen EXCEPT ![r] = <<>>]
  /\ hret' = NoHRet
  /\ UNCHANGED <<d_weight, d_id, hashes, hashesLock, hashesComputed, hpc, hloc>>
  /\ UNCHANGED <<idvars, connvars, poolvars, pickvars, tcpvars, policyvars, lbvars, nsvars,
                 hcvars, luavars>>

ReadStep(r) ==
  \/ Read_lock(r)
  \/ Read_observe(r)
  \/ Read_unlock(r)

NextRead ==
  \/ \E t \in HashThreads : HashStep(t)
  \/ \E r \in Readers : ReadStep(r)

SpecRead == InitHash /\ [][NextRead]_vars

\* what one finished hash() call leaves for an id and a weight
HashVector(id, w) == SortHashes([j \in 1 .. w |-> BurtleCI(id, w - j + 1)])

\* a hash() call is between its clear() and the end of its sort
Rebuilding == \E t \in HashThreads : hpc[t] \in {"h_clear", "h_push"}

MarksUnhealthy_atTwo(consecutive_failures) == consecutive_failures >= 2

\* if (status.consecutive_failures >= 3) status.is_healthy = false
MarksUnhealthy(consecutive_failures) == consecutive_failures >= FailureThreshold

\* lines 128-141: the status of a pool after a check with result is_healthy
UpdateStatus(st, is_healthy) ==
  IF is_healthy
    THEN [st EXCEPT !.consecutive_failures = 0, !.is_healthy = TRUE]
    ELSE LET n == st.consecutive_failures + 1
         IN [st EXCEPT !.consecutive_failures = n,
                       !.is_healthy = IF MarksUnhealthy(n) THEN FALSE ELSE @]

\* one turn of the loop over pools_ in a check cycle: the check of the pool
\* (HTTP endpoint, else DNS connectivity of its first server, else failed)
\* and the update of its status
HealthCheckPool(is_healthy) ==
  LET p == hcNext
  IN /\ is_healthy \/ pool_health_[p].consecutive_failures < MaxFailures
     /\ pool_health_' = [pool_health_ EXCEPT ![p] = UpdateStatus(@, is_healthy)]
     /\ hadSuccess' = [hadSuccess EXCEPT ![p] = @ \/ is_healthy]
     /\ hcNext' = IF p = NumHcPools THEN 1 ELSE p + 1
     /\ hcRet' = [op |-> "check", pool |-> p, ok |-> is_healthy]
     /\ UNCHANGED <<idvars, connvars, hashvars, poolvars, pickvars, tcpvars, policyvars>>
     /\ UNCHANGED <<lbvars, nsvars, readvars, luavars>>

InitHc == IdInit /\ ConnInit /\ ~randomizeIDs /\ ~remoteIsAny /\ OtherInit

NextHc == \E is_healthy \in BOOLEAN : HealthCheckPool(is_healthy)

SpecHc == InitHc /\ [][NextHc]_vars

\* C36: after every check cycle a pool's is_healthy flag is true exactly when
\* the pool has had at least one successful check and its consecutive_failures
\* is below 3: unhealthy from construction until the first successful check,
\* a healthy pool turns unhealthy only on the check that brings
\* consecutive_failures to 3 or more, and any successful check resets
\* consecutive_failures to 0 and makes the pool healthy.
C36_HealthyIffRecentSuccess ==
  /\ [](\A p \in HcPools :
          pool_health_[p].is_healthy <=>
            (hadSuccess[p] /\ pool_health_[p].consecutive_failures < 3))
  /\ [][\A p \in HcPools :
          /\ (pool_health_[p].is_healthy /\ ~pool_health_'[p].is_healthy) =>
               /\ pool_health_[p].consecutive_failures < 3
               /\ pool_health_'[p].consecutive_failures >= 3
          /\ (hcRet'.op = "check" /\ hcRet'.pool = p /\ hcRet'.ok) =>
               /\ pool_health_'[p].consecutive_failures = 0
               /\ pool_health_'[p].is_healthy
      ]_vars

\* a pool that was healthy has just failed its third check in a row, next to
\* a pool that never passed a check
C36_Witness ==
  \E p, q \in HcPools :
    /\ hadSuccess[p] /\ ~pool_health_[p].is_healthy
    /\ pool_health_[p].consecutive_failures = 3
    /\ hcRet.op = "check" /\ hcRet.pool = p
    /\ ~hadSuccess[q] /\ pool_health_[q].consecutive_failures >= 1

\* ============================================ Part 16: the Lua side effect
Tribool == {"true", "false", "indeterminate"}

\* boost::tribool: a == b is indeterminate when either side is
TriEquals(a, b) ==
  IF a = "indeterminate" \/ b = "indeterminate" THEN "indeterminate"
  ELSE IF a = b THEN "true" ELSE "false"

\* the conversion of a tribool in a condition: true only for true
TriHolds(a) == a = "true"

\* a check that never finds an earlier side effect
SideEffectDeclared_never(s) == FALSE

\* setLuaNoSideEffect: if (s_noLuaSideEffect == false) return
SideEffectDeclared(s) == TriHolds(TriEquals(s, "false"))

otherLuaVars == <<idvars, connvars, hashvars, poolvars, pickvars, tcpvars, policyvars,
                  lbvars, nsvars, readvars, hcvars>>

SetLuaNoSideEffect ==
  /\ Len(luaCalls) < MaxLuaCalls
  /\ s_noLuaSideEffect' = IF SideEffectDeclared(s_noLuaSideEffect)
                            THEN s_noLuaSideEffect ELSE "true"
  /\ luaCalls' = Append(luaCalls, "noSideEffect")
  /\ luaRet' = NoLuaRet
  /\ UNCHANGED luaReset
  /\ UNCHANGED otherLuaVars

SetLuaSideEffect ==
  /\ Len(luaCalls) < MaxLuaCalls
  /\ s_noLuaSideEffect' = "false"
  /\ luaCalls' = Append(luaCalls, "sideEffect")
  /\ luaRet' = NoLuaRet
  /\ UNCHANGED luaReset
  /\ UNCHANGED otherLuaVars

GetLuaNoSideEffect ==
  /\ luaRet' = [op |-> "get", res |-> TriHolds(s_noLuaSideEffect)]
  /\ UNCHANGED <<s_noLuaSideEffect, luaReset, luaCalls>>
  /\ UNCHANGED otherLuaVars

ResetLuaSideEffect ==
  /\ s_noLuaSideEffect' = "indeterminate"
  /\ luaReset' = TRUE
  /\ luaCalls' = <<>>
  /\ luaRet' = NoLuaRet
  /\ UNCHANGED otherLuaVars

InitLua == IdInit /\ ConnInit /\ ~randomizeIDs /\ ~remoteIsAny /\ OtherInit

NextLua ==
  \/ SetLuaNoSideEffect
  \/ SetLuaSideEffect
  \/ GetLuaNoSideEffect
  \/ ResetLuaSideEffect

SpecLua == InitLua /\ [][NextLua]_vars

Declared(what) == \E i \in 1 .. Len(luaCalls) : luaCalls[i] = what

\* C37: after resetLuaSideEffect(), for any sequence of setLuaNoSideEffect()
\* and setLuaSideEffect() calls, getLuaNoSideEffect() returns true if and only
\* if setLuaNoSideEffect() was called at least once and setLuaSideEffect() was
\* never called since the reset, whatever the order of the calls.
C37_NoSideEffectIffOnlyDeclaredSo ==
  (luaReset /\ luaRet.op = "get") =>
    (luaRet.res <=> (Declared("noSideEffect") /\ ~Declared("sideEffect")))

\* a side effect was declared first and the no-side-effect declaration that
\* followed did not clear it
C37_Witness ==
  /\ luaReset /\ luaRet.op = "get" /\ ~luaRet.res
  /\ luaCalls = <<"sideEffect", "noSideEffect">>

\* ============================= Part 17: a slot reused under the running scan
\* C38: if saveState reuses a slot between the unguarded expiry check of
\* handleUDPTimeouts and its acquisition of the slot guard, the newly stored
\* context is not timed out by that scan: timeout handling runs only for a
\* slot that is in use and has age > udpTimeout when re-checked under the
\* guard (a context saveState stored is timed out by a later scan at the
\* earliest).
C38_ReusedSlotNotTimedOut ==
  [][(~randomizeIDs /\ ret'.op = "expire") =>
       LET i == ret'.id
           ids == idStates[i]
       IN /\ wpc = "held" /\ widx = i /\ ids.locked
          /\ ids.inUse /\ isIDSExpired(ids)
          /\ ret'.ctx = ids.internal
          /\ (ret'.ctx \in Ctxs /\ origin[ret'.ctx] = "save") => ret'.n >= 1
    ]_vars

\* the scan holds the guard of a slot it had found expired and that saveState
\* has reused since: the context there is new
C38_Witness ==
  /\ ~randomizeIDs
  /\ wpc = "held"
  /\ idStates[widx].inUse /\ idStates[widx].age = 0 /\ scans[widx] = 0
  /\ reuseds >= 1
  /\ idStates[widx].internal \in Ctxs /\ origin[idStates[widx].internal] = "save"

\* ======================================= Part 18: stop() against reconnect()
\* no stop() and no reconnect() call is running
StopAndReconnectReturned ==
  \A t \in Threads : cloc[t].op \notin {"stop", "reconnect"}

\* C39: in any interleaving of stop() with a concurrent reconnect(), once
\* both calls have returned every socket of the backend that is still open
\* has received shutdown() after it was opened, and no reconnect() that
\* begins after stop() returned opens a socket.
C39_StopShutsEverySocket ==
  /\ (stopReturned /\ StopAndReconnectReturned) =>
       \A i \in SockIdx : sockets[i] \in {NoFd, "shut"}
  /\ \A t \in Threads :
       (cloc[t].op = "reconnect" /\ cloc[t].afterStop) => cpc[t] = "rc_check"

\* a reconnect() that began before stop() and connected every socket has
\* returned after stop() did, and the sockets it opened are shut down
C39_Witness ==
  /\ stopReturned /\ StopAndReconnectReturned
  /\ cret.op = "reconnect" /\ cret.res /\ cret.outcome = "ok"
  /\ \A i \in SockIdx : sockets[i] = "shut"

\* ================================ Part 19: waitUntilConnected() after stop()
\* C40: waitUntilConnected() never blocks forever on a stopped backend: it
\* returns at once when the backend is already stopped or already connected,
\* and a thread that is blocked in it when stop() is called is eventually
\* released.
C40_WaitersReleasedByStop ==
  \A t \in Threads : (InWait(t) /\ d_stopped) ~> ~InWait(t)

====
